---- MODULE Spec2Model ----
(***************************************************************************)
(* ProductScraper: the resumable checkpoint file (Progress), the three     *)
(* spiders that read and write it, and the batch persister                 *)
(* (SaveToDatabase) with the post-processing pipeline that follow it.      *)
(*                                                                         *)
(* One crawl of one spider is: construction of the spider and of the item  *)
(* pipelines, the category-discovery callback, the product-page callbacks  *)
(* (in any order, Scrapy schedules the requests), the pipelines'           *)
(* close_spider handlers and the spider's closed handler.  app.py crawls   *)
(* continente, pingo_doce and auchan one after the other.  The process     *)
(* can be killed between any two handlers; only the files and the          *)
(* database survive.                                                       *)
(***************************************************************************)
EXTENDS Bags, FiniteSets, Integers, Sequences, TLC

(***************************************************************************)
(* Bounds of the model and program constants.                              *)
(***************************************************************************)
\* Number of times app.py is started (a restart after a kill included).
MaxRuns == 2
\* Number of database commits that fail.
MaxFailures == 1
\* Number of product pages of the larger sub-category (s1); every page
\* carries one product.
NPages == 2
\* Longest price string given to _parse_price.
MaxLen == 5
\* Largest number of items in a flush that is followed item by item.
MaxItems == 2
\* SaveToDatabase.BATCH_SIZE. 1000 in the source; scaled down with the
\* catalogue so that the proportions stay: a crawl can end on an exact
\* multiple of the batch size or with a remainder, and a category can be
\* larger than a batch.
BATCH_SIZE == 2
\* settings.CATEGORY_LIMIT. 10 in the source; scaled to the two categories
\* of the model so that a campaign needs more than one run.
CATEGORY_LIMIT == 1

Sources == {"continente", "pingo_doce", "auchan"}
Cats == {"c1", "c2"}
Subs == {"s1", "s2"}

\* The number of product pages the site serves for a sub-category: s2 is
\* one page shorter than s1.
Pages(sub) == IF sub = "s1" THEN NPages ELSE NPages - 1

(***************************************************************************)
(* A category map (continente_categories.json, pingo_doce_category_map.json*)
(* auchan_categories_dict): the categories and the sub-category list of    *)
(* each.  subs[c] = {} for a category that is not in cats; a category in   *)
(* cats may have an empty list.                                            *)
(***************************************************************************)
NoSubs == [c \in Cats |-> {}]
EmptyMap == [cats |-> {}, subs |-> NoSubs]
\* A category map with the categories K and the sub-category lists f.
Map(K, f) == [cats |-> K, subs |-> [c \in Cats |-> IF c \in K THEN f[c] ELSE {}]]

\* What the site serves when a spider discovers its categories: Continente's
\* menu over the runs gains and loses a sub-category (c1/s2), loses a
\* category (c2), replaces a sub-category by another (c1: s1 by s2), and can
\* list a category without any sub-category link.
Taxonomies ==
    { Map({"c1", "c2"}, [c \in Cats |-> {"s1"}]),
      Map({"c1", "c2"}, [c \in Cats |-> IF c = "c1" THEN {"s1", "s2"} ELSE {"s1"}]),
      Map({"c1"}, [c \in Cats |-> {"s1", "s2"}]),
      Map({"c1"}, [c \in Cats |-> {"s2"}]),
      Map({"c1", "c2"}, [c \in Cats |-> IF c = "c1" THEN {"s1"} ELSE {}]) }

(***************************************************************************)
(* Progress.progress_file_default.  The template has no                    *)
(* pingo_doce_subcategories_scraped key: pdsubs_key says whether the key   *)
(* is in the record.  A missing category key of a sub-category map and an  *)
(* empty list are both {}.                                                 *)
(***************************************************************************)
progress_file_default ==
    [ categories_scraped      |-> [s \in Sources |-> {}],
      activate_sellenium      |-> 1,
      database_url            |-> "",
      scraper_init_time       |-> "",
      scraped_items           |-> 0,
      total_categories        |-> [s \in Sources |-> 0],
      scraped_categories      |-> [s \in Sources |-> 0],
      auchan_categories_dict  |-> EmptyMap,
      continente_subcategories_scraped |-> NoSubs,
      pdsubs_key              |-> FALSE,
      pingo_doce_subcategories_scraped |-> NoSubs ]

VARIABLES
    file,        \* utilities/json/progress_file.json
    catMapFile,  \* utilities/json/continente_categories.json
    pdMapFile,   \* utilities/json/pingo_doce_category_map.json
    db,          \* products committed to the database of file.database_url (a bag)
    pc,          \* where the process is
    cur,         \* the spider being crawled
    runs,        \* starts of app.py so far
    progress,    \* the spider's self.progress
    category_subcategory_map,  \* ContinenteSpider.category_subcategory_map
    pending,     \* requests scheduled and not yet answered
    yielded,     \* the request whose callback has yielded its product
    items_batch, \* SaveToDatabase.items_batch
    item_scraped_count,  \* the crawler's item_scraped_count stat
    failures,    \* database commits that have failed so far
    ev,          \* what the last handler did (history, for the properties)
    call         \* a function of the pipelines called on its own: its
                 \* argument and, once it has returned, its result

\* The state of the scraping process.
processVars == <<file, catMapFile, pdMapFile, db, pc, cur, runs, progress,
                 category_subcategory_map, pending, yielded, items_batch,
                 item_scraped_count, failures, ev>>

vars == <<processVars, call>>

\* A product record as yielded by a page: its store, category, sub-category
\* and the page it is on.
Rec(s, c, sub, p) == <<s, c, sub, p>>

\* A request: category, sub-category, page, and PingoDoce's
\* meta['total_subcategories'] (0 for the other spiders).
Req(c, sub, p, n) == [cat |-> c, sub |-> sub, page |-> p, total |-> n]

\* The process before app.py is first started.
InitProcess ==
    /\ file = progress_file_default
    /\ catMapFile = EmptyMap
    /\ pdMapFile = EmptyMap
    /\ db = EmptyBag
    /\ pc = "idle"
    /\ cur = "continente"
    /\ runs = 0
    /\ progress = progress_file_default
    /\ category_subcategory_map = EmptyMap
    /\ pending = {}
    /\ yielded = {}
    /\ items_batch = {}
    /\ item_scraped_count = 0
    /\ failures = 0
    /\ ev = "none"

Init ==
    LET \* No function is being called on its own.
        NoCall == [fn |-> "none"]
    IN  /\ InitProcess
        /\ call = NoCall

(***************************************************************************)
(* Progress: save_progress writes the whole record it is given;            *)
(* load_progress_file returns the record on disk.  Both are the identity   *)
(* on the record: file' = p is a save of p, p = file is a load.            *)
(***************************************************************************)

\* A completion test that forgets the last source.
IsScrapingCompleteTwoSources(p) ==
    /\ p.scraped_categories["pingo_doce"] >= p.total_categories["pingo_doce"]
    /\ p.scraped_categories["continente"] >= p.total_categories["continente"]

\* A completion test that waits for every source to have discovered its
\* categories.
IsScrapingCompleteDiscovered(p) ==
    \A s \in Sources :
        /\ p.total_categories[s] > 0
        /\ p.scraped_categories[s] >= p.total_categories[s]

\* SaveToDatabase.is_scraping_complete, on the record loaded from the file.
IsScrapingComplete(p) ==
    /\ p.scraped_categories["pingo_doce"] >= p.total_categories["pingo_doce"]
    /\ p.scraped_categories["continente"] >= p.total_categories["continente"]
    /\ p.scraped_categories["auchan"] >= p.total_categories["auchan"]

\* A commit whose failure is not rolled back: the staged records stay.
CommitBatchNoRollback(batch, dbv, ok) ==
    IF ok
    THEN [db |-> dbv (+) SetToBag(batch), items_batch |-> {}, raised |-> FALSE]
    ELSE [db |-> dbv (+) SetToBag(batch), items_batch |-> batch, raised |-> TRUE]

\* A commit that empties the buffer whether or not it succeeds.
CommitBatchDropsBuffer(batch, dbv, ok) ==
    IF ok
    THEN [db |-> dbv (+) SetToBag(batch), items_batch |-> {}, raised |-> FALSE]
    ELSE [db |-> dbv, items_batch |-> {}, raised |-> TRUE]

\* SaveToDatabase._commit_batch: every buffered record is staged, then the
\* session commits (ok) or the commit raises, is rolled back and re-raised.
\* The buffer is emptied by a successful commit only.
CommitBatch(batch, dbv, ok) ==
    IF ok
    THEN [db |-> dbv (+) SetToBag(batch), items_batch |-> {}, raised |-> FALSE]
    ELSE [db |-> dbv, items_batch |-> batch, raised |-> TRUE]

\* A process_item that commits only when the buffer has grown past
\* BATCH_SIZE.
ProcessItemLateFlush(batch, dbv, r, ok) ==
    LET b1 == batch \cup {r}
    IN  IF Cardinality(b1) > BATCH_SIZE
        THEN CommitBatch(b1, dbv, ok)
        ELSE [db |-> dbv, items_batch |-> b1, raised |-> FALSE]

\* SaveToDatabase.process_item: append, and commit once the buffer holds
\* BATCH_SIZE records.
ProcessItem(batch, dbv, r, ok) ==
    LET b1 == batch \cup {r}
    IN  IF Cardinality(b1) >= BATCH_SIZE
        THEN CommitBatch(b1, dbv, ok)
        ELSE [db |-> dbv, items_batch |-> b1, raised |-> FALSE]

\* The categories a discovery pass selects: it walks the candidates in the
\* order of the category map and stops at CATEGORY_LIMIT; the order is the
\* site's, so any CATEGORY_LIMIT of them can be the first ones.
Selections(candidates) ==
    LET Min(a, b) == IF a < b THEN a ELSE b
    IN  { K \in SUBSET candidates :
            Cardinality(K) = Min(CATEGORY_LIMIT, Cardinality(candidates)) }

(***************************************************************************)
(* Start of app.py, and construction of a spider and of its pipelines.     *)
(***************************************************************************)
Start ==
    /\ pc = "idle"
    /\ runs < MaxRuns
    /\ runs' = runs + 1
    /\ cur' = "continente"
    /\ pc' = "open"
    /\ ev' = "start"
    /\ UNCHANGED <<yielded, failures, file, catMapFile, pdMapFile, db, progress,
                   category_subcategory_map, pending, items_batch,
                   item_scraped_count>>
    /\ UNCHANGED call

\* SaveToDatabase.get_database_url: the record it saves (the record itself
\* when the file already names a database).
GetDatabaseUrl(p) ==
    IF p.database_url # ""
    THEN p
    ELSE [p EXCEPT !.database_url = "db",
                   !.scraper_init_time =
                       IF p.scraper_init_time = "" THEN "t" ELSE p.scraper_init_time]

\* Spider.__init__ (loads the progress file, ContinenteSpider also its
\* category map), then SaveToDatabase.__init__: an empty buffer and
\* get_database_url, which creates a new, empty database when the file
\* names none and saves the file.
OpenCrawl ==
    /\ pc = "open"
    /\ progress' = file
    /\ category_subcategory_map' =
           IF cur = "continente" THEN catMapFile ELSE EmptyMap
    /\ items_batch' = {}
    /\ item_scraped_count' = 0
    /\ file' = GetDatabaseUrl(file)
    /\ db' = IF file.database_url = "" THEN EmptyBag ELSE db
    /\ pending' = {}
    /\ pc' = "discover"
    /\ ev' = "open"
    /\ UNCHANGED <<yielded, failures, catMapFile, pdMapFile, cur, runs>>
    /\ UNCHANGED call

(***************************************************************************)
(* ContinenteSpider.start_requests and parse_category_links.               *)
(***************************************************************************)

\* A discovery pass that re-tests every category of both maps, whether or
\* not it lost a sub-category.
ContinenteDiscoveredRecheckAll(p, old, fresh) ==
    LET removed_categories == old.cats \ fresh.cats
        both == old.cats \cap fresh.cats
        removed_subcats(c) == old.subs[c] \ fresh.subs[c]
        scraped1 == p.categories_scraped["continente"] \ removed_categories
        subs1 == [c \in Cats |->
                    IF c \in removed_categories
                    THEN {}
                    ELSE p.continente_subcategories_scraped[c]]
        subs2 == [c \in Cats |->
                    IF c \in both /\ removed_subcats(c) # {}
                    THEN subs1[c] \cap fresh.subs[c]
                    ELSE subs1[c]]
        scraped2 == scraped1 \
                    { c \in both : /\ TRUE
                                   /\ subs2[c] \subseteq fresh.subs[c]
                                   /\ subs2[c] # fresh.subs[c] }
    IN  [p EXCEPT !.total_categories["continente"] = Cardinality(fresh.cats),
                  !.scraped_categories["continente"] = Cardinality(scraped2),
                  !.categories_scraped["continente"] = scraped2,
                  !.continente_subcategories_scraped = subs2]

\* The progress record parse_category_links saves: p is the record loaded by
\* start_requests, old the spider's category map, fresh the map built from
\* the response.  Categories of old that fresh lacks are dropped from both
\* scraped collections; for a category of both, sub-categories that fresh
\* lacks are dropped, and the category stops being scraped when what is
\* left is a proper subset of its fresh sub-categories.  (A scraped
\* category always has its key in continente_subcategories_scraped, so the
\* test "category in subcategories_scraped" is the same for a missing key
\* and an empty list.)
ContinenteDiscovered(p, old, fresh) ==
    LET removed_categories == old.cats \ fresh.cats
        both == old.cats \cap fresh.cats
        removed_subcats(c) == old.subs[c] \ fresh.subs[c]
        scraped1 == p.categories_scraped["continente"] \ removed_categories
        subs1 == [c \in Cats |->
                    IF c \in removed_categories
                    THEN {}
                    ELSE p.continente_subcategories_scraped[c]]
        subs2 == [c \in Cats |->
                    IF c \in both /\ removed_subcats(c) # {}
                    THEN subs1[c] \cap fresh.subs[c]
                    ELSE subs1[c]]
        scraped2 == scraped1 \
                    { c \in both : /\ removed_subcats(c) # {}
                                   /\ subs2[c] \subseteq fresh.subs[c]
                                   /\ subs2[c] # fresh.subs[c] }
    IN  [p EXCEPT !.total_categories["continente"] = Cardinality(fresh.cats),
                  !.scraped_categories["continente"] = Cardinality(scraped2),
                  !.categories_scraped["continente"] = scraped2,
                  !.continente_subcategories_scraped = subs2]

\* A selection that looks at the sub-categories only.
ContinenteCandidatesAnyCategory(p, fresh) ==
    { c \in fresh.cats :
        fresh.subs[c] \ p.continente_subcategories_scraped[c] # {} }

\* Categories that are not scraped and have an unscraped sub-category.
ContinenteCandidates(p, fresh) ==
    { c \in fresh.cats \ p.categories_scraped["continente"] :
        fresh.subs[c] \ p.continente_subcategories_scraped[c] # {} }

ContinenteParseCategoryLinks ==
    LET \* The sub-category links parse_category_links follows for the categories K.
        ContinenteLinks(p, fresh, K) ==
            UNION { { Req(c, sub, 1, 0) :
                        sub \in fresh.subs[c] \ p.continente_subcategories_scraped[c] } :
                    c \in K }
    IN  /\ pc = "discover"
        /\ cur = "continente"
        /\ \E fresh \in Taxonomies :
             LET p == ContinenteDiscovered(file, category_subcategory_map, fresh)
             IN  /\ category_subcategory_map' = fresh
                 /\ catMapFile' = fresh
                 /\ progress' = p
                 /\ file' = p
                 /\ \E K \in Selections(ContinenteCandidates(p, fresh)) :
                      pending' = ContinenteLinks(p, fresh, K)
                 /\ ev' = IF p.categories_scraped = file.categories_scraped
                          THEN "discover" ELSE "pruned"
        /\ pc' = "crawl"
        /\ UNCHANGED <<yielded, failures, pdMapFile, db, cur, runs, items_batch, item_scraped_count>>
        /\ UNCHANGED call

(***************************************************************************)
(* PingoDoceSpider.parse.                                                  *)
(***************************************************************************)

\* The lists of sub-category links a spider builds hold the link that made
\* it add the category: no category of PingoDoce or Auchan has an empty list.
LinkedTaxonomies ==
    { t \in Taxonomies \cup {EmptyMap} : \A c \in t.cats : t.subs[c] # {} }

\* A discovery that adds the selected categories and leaves the counter of
\* scraped categories as it was.
PingoDoceDiscoveredNoCount(p, fresh, K) ==
    LET scraped == p.categories_scraped["pingo_doce"] \cup K
    IN  [p EXCEPT !.total_categories["pingo_doce"] = Cardinality(fresh.cats),
                  !.categories_scraped["pingo_doce"] = scraped]

\* The record parse saves last: the total of the fresh categories, and the
\* selected categories K added to the scraped ones before any of their pages
\* is requested.
PingoDoceDiscovered(p, fresh, K) ==
    LET scraped == p.categories_scraped["pingo_doce"] \cup K
    IN  [p EXCEPT !.total_categories["pingo_doce"] = Cardinality(fresh.cats),
                  !.categories_scraped["pingo_doce"] = scraped,
                  !.scraped_categories["pingo_doce"] = Cardinality(scraped)]

PingoDoceParse ==
    LET \* old_data: the map file's categories, overwritten by the fresh ones.
        PingoDoceOldData(old, fresh) ==
            [cats |-> old.cats \cup fresh.cats,
             subs |-> [c \in Cats |-> IF c \in fresh.cats THEN fresh.subs[c] ELSE old.subs[c]]]
    IN  /\ pc = "discover"
        /\ cur = "pingo_doce"
        /\ \E fresh \in LinkedTaxonomies :
             LET old_data == PingoDoceOldData(pdMapFile, fresh)
                 remaining == old_data.cats \ file.categories_scraped["pingo_doce"]
             IN  /\ pdMapFile' = fresh
                 /\ \E K \in Selections(remaining) :
                      /\ file' = PingoDoceDiscovered(file, fresh, K)
                      /\ progress' = PingoDoceDiscovered(file, fresh, K)
                      /\ pending' = UNION { { Req(c, sub, 1, Cardinality(old_data.subs[c])) :
                                                 sub \in old_data.subs[c] } : c \in K }
        /\ pc' = "crawl"
        /\ ev' = "discover"
        /\ UNCHANGED <<yielded, failures, catMapFile, db, cur, runs, category_subcategory_map,
                       items_batch, item_scraped_count>>
        /\ UNCHANGED call

(***************************************************************************)
(* AuchanSpider.parse.                                                     *)
(***************************************************************************)

\* A parse that saves the copy the spider loaded when it was constructed,
\* with the categories K added to the scraped ones.
AuchanDiscoveredStaleCopy(p, K) ==
    LET scraped == progress.categories_scraped["auchan"] \cup K
    IN  [progress EXCEPT !.categories_scraped["auchan"] = scraped,
                         !.scraped_categories["auchan"] = Cardinality(scraped)]

\* The record parse saves after it has yielded the requests of the
\* categories K: each is added to the scraped ones.
AuchanDiscovered(p, K) ==
    LET scraped == p.categories_scraped["auchan"] \cup K
    IN  IF K = {}
        THEN p
        ELSE [p EXCEPT !.categories_scraped["auchan"] = scraped,
                       !.scraped_categories["auchan"] = Cardinality(scraped)]

AuchanParse ==
    LET \* The record after the Selenium pass (run only while the flag is set): a
        \* non-empty dictionary is stored with its size and clears the flag.
        AuchanCategories(p, fresh) ==
            IF p.activate_sellenium = 1 /\ fresh.cats # {}
            THEN [p EXCEPT !.activate_sellenium = 0,
                           !.auchan_categories_dict = fresh,
                           !.total_categories["auchan"] = Cardinality(fresh.cats)]
            ELSE p
    IN  /\ pc = "discover"
        /\ cur = "auchan"
        /\ \E fresh \in LinkedTaxonomies :
             IF file.activate_sellenium = 1 /\ fresh.cats = {}
             THEN \* "Failed to extract categories": parse returns
                  /\ progress' = file
                  /\ pending' = {}
                  /\ UNCHANGED file
             ELSE LET p == AuchanCategories(file, fresh)
                      dict == p.auchan_categories_dict
                  IN  \E K \in Selections(dict.cats \ p.categories_scraped["auchan"]) :
                        /\ file' = AuchanDiscovered(p, K)
                        /\ progress' = AuchanDiscovered(p, K)
                        /\ pending' = UNION { { Req(c, sub, 1, 0) : sub \in dict.subs[c] } :
                                               c \in K }
        /\ pc' = "crawl"
        /\ ev' = "discover"
        /\ UNCHANGED <<yielded, failures, catMapFile, pdMapFile, db, cur, runs, category_subcategory_map,
                       items_batch, item_scraped_count>>
        /\ UNCHANGED call

(***************************************************************************)
(* The product-page callbacks.  A callback is a generator: it yields the   *)
(* product of its page, Scrapy runs the item through the pipelines, and    *)
(* the callback resumes with the next-page request or the completion       *)
(* branch.  yielded holds the request whose callback is suspended after    *)
(* its yield.  ok is the outcome of the database commit, should the item   *)
(* trigger one.                                                            *)
(***************************************************************************)

\* The outcomes a database commit can have: it succeeds, or (MaxFailures
\* times at most) it raises.
Outcomes == IF failures < MaxFailures THEN BOOLEAN ELSE {TRUE}

\* A page's callback yields the product of the page, which runs through the
\* pipelines (ProductScraperPipeline, then SaveToDatabase.process_item)
\* before the callback resumes.  An item whose process_item raises is not
\* counted in item_scraped_count.
SaveToDatabaseProcessItem ==
    /\ pc = "crawl"
    /\ yielded = {}
    /\ \E req \in pending, ok \in Outcomes :
         LET res == ProcessItem(items_batch, db,
                                Rec(cur, req.cat, req.sub, req.page), ok)
         IN  /\ req.page <= Pages(req.sub)
             /\ pending' = pending \ {req}
             /\ yielded' = {req}
             /\ items_batch' = res.items_batch
             /\ db' = res.db
             /\ item_scraped_count' =
                    item_scraped_count + (IF res.raised THEN 0 ELSE 1)
             /\ failures' = failures +
                    (IF ~ok /\ Cardinality(items_batch) + 1 >= BATCH_SIZE THEN 1 ELSE 0)
             /\ ev' = IF res.raised THEN "commit_failed"
                      ELSE IF res.items_batch = {} THEN "commit_ok" ELSE "buffered"
    /\ UNCHANGED <<file, catMapFile, pdMapFile, pc, cur, runs, progress,
                   category_subcategory_map>>
    /\ UNCHANGED call

ContinenteParseProducts ==
    LET \* ContinenteSpider.parse_products, last page: the record saved after the
        \* sub-category sub of category c is completed; p is the record loaded from
        \* the file, map the spider's category map.
        ContinenteSubcategoryDone(p, map, c, sub) ==
            LET scraped_subcategories == p.continente_subcategories_scraped[c] \cup {sub}
                all_subcategories == map.subs[c]
                p1 == [p EXCEPT !.continente_subcategories_scraped[c] = scraped_subcategories]
                scraped == p.categories_scraped["continente"] \cup {c}
            IN  IF /\ all_subcategories \subseteq scraped_subcategories
                   /\ all_subcategories # {}
                   /\ c \notin p.categories_scraped["continente"]
                THEN [p1 EXCEPT !.categories_scraped["continente"] = scraped,
                                !.scraped_categories["continente"] = Cardinality(scraped)]
                ELSE p1
    IN  /\ pc = "crawl"
        /\ cur = "continente"
        /\ \E req \in yielded :
             IF req.page < Pages(req.sub)
             THEN /\ pending' = pending \cup {Req(req.cat, req.sub, req.page + 1, 0)}
                  /\ ev' = "next_page"
                  /\ UNCHANGED <<file, progress>>
             ELSE LET p == ContinenteSubcategoryDone(file, category_subcategory_map,
                                                     req.cat, req.sub)
                  IN  /\ file' = p
                      /\ progress' = p
                      /\ ev' = "subcategory_done"
                      /\ UNCHANGED pending
        /\ yielded' = {}
        /\ UNCHANGED <<catMapFile, pdMapFile, db, pc, cur, runs,
                       category_subcategory_map, items_batch, item_scraped_count,
                       failures>>
        /\ UNCHANGED call

\* Pages 1..Pages(sub) carry a product and are followed by a request for the
\* next page; the page after the last is empty and ends the sub-category.
\* The record parse loaded has the pingo_doce_subcategories_scraped key only
\* if the file has it; without it the completion branch raises KeyError
\* before it saves.
PingoDoceParseProducts ==
    LET \* PingoDoceSpider.parse_products, empty page: the spider's own record with
        \* the sub-category added, and the category added once the number of its
        \* completed sub-categories equals meta['total_subcategories'].
        PingoDoceSubcategoryDone(p, c, sub, total_subcategories) ==
            LET done == p.pingo_doce_subcategories_scraped[c] \cup {sub}
                p1 == [p EXCEPT !.pingo_doce_subcategories_scraped[c] = done]
            IN  IF Cardinality(done) = total_subcategories
                THEN [p1 EXCEPT !.categories_scraped["pingo_doce"] = @ \cup {c}]
                ELSE p1
    IN  /\ pc = "crawl"
        /\ cur = "pingo_doce"
        /\ \/ \E req \in yielded :
                /\ pending' = pending \cup {Req(req.cat, req.sub, req.page + 1, req.total)}
                /\ yielded' = {}
                /\ ev' = "next_page"
                /\ UNCHANGED <<file, progress>>
           \/ \E req \in pending :
                /\ yielded = {}
                /\ req.page > Pages(req.sub)
                /\ pending' = pending \ {req}
                /\ UNCHANGED yielded
                /\ IF progress.pdsubs_key
                   THEN LET p == PingoDoceSubcategoryDone(progress, req.cat, req.sub,
                                                          req.total)
                        IN  /\ progress' = p
                            /\ file' = p
                            /\ ev' = "subcategory_done"
                   ELSE /\ UNCHANGED <<file, progress>>
                        /\ ev' = "key_error"
        /\ UNCHANGED <<catMapFile, pdMapFile, db, pc, cur, runs,
                       category_subcategory_map, items_batch, item_scraped_count,
                       failures>>
        /\ UNCHANGED call

\* AuchanSpider.parse_products after the product: the next page if any.
AuchanParseProducts ==
    /\ pc = "crawl"
    /\ cur = "auchan"
    /\ \E req \in yielded :
         pending' = IF req.page < Pages(req.sub)
                    THEN pending \cup {Req(req.cat, req.sub, req.page + 1, 0)}
                    ELSE pending
    /\ yielded' = {}
    /\ ev' = "next_page"
    /\ UNCHANGED <<file, progress, catMapFile, pdMapFile, db, pc, cur, runs,
                   category_subcategory_map, items_batch, item_scraped_count,
                   failures>>
    /\ UNCHANGED call

(***************************************************************************)
(* Closing a crawl.  Scrapy calls the pipelines' close_spider handlers in  *)
(* the reverse of their ITEM_PIPELINES order (its MiddlewareManager        *)
(* registers open_spider with append and close_spider with appendleft):    *)
(* PostDatabaseProcessorPipeline (600) closes before SaveToDatabase (500). *)
(* The spider's closed handler runs after the pipelines are closed.        *)
(***************************************************************************)

\* PostDatabaseProcessorPipeline.close_spider: the post-processing pass runs
\* over the stored products if is_scraping_complete() holds of the file.
PostCloseSpider ==
    /\ pc = "crawl"
    /\ pending = {}
    /\ yielded = {}
    /\ ev' = IF IsScrapingComplete(file) THEN "post_run" ELSE "post_skip"
    /\ pc' = "close_persister"
    /\ UNCHANGED <<yielded, failures, file, catMapFile, pdMapFile, db, cur, runs, progress,
                   category_subcategory_map, pending, items_batch,
                   item_scraped_count>>
    /\ UNCHANGED call

\* A close that saves the loaded record whether or not the crawl is complete.
CloseSpiderNoReset(p, batch, dbv, count, ok) ==
    LET c == IF batch # {}
             THEN CommitBatch(batch, dbv, ok)
             ELSE [db |-> dbv, items_batch |-> batch, raised |-> FALSE]
        p1 == IF batch # {} THEN [p EXCEPT !.scraped_items = @ + count] ELSE p
    IN  IF c.raised
        THEN [file |-> p, db |-> c.db, items_batch |-> c.items_batch,
              ev |-> "close_failed"]
        ELSE [file |-> p1, db |-> c.db, items_batch |-> c.items_batch,
              ev |-> IF IsScrapingComplete(p) THEN "close_reset" ELSE "close_saved"]

\* SaveToDatabase.close_spider on the record p loaded from the file: commit
\* what is left in the buffer (a failed commit raises and ends the handler),
\* add the crawl's item count if the buffer was not empty, then write the
\* template if is_scraping_complete() holds of the file and p otherwise.
CloseSpider(p, batch, dbv, count, ok) ==
    LET c == IF batch # {}
             THEN CommitBatch(batch, dbv, ok)
             ELSE [db |-> dbv, items_batch |-> batch, raised |-> FALSE]
        p1 == IF batch # {} THEN [p EXCEPT !.scraped_items = @ + count] ELSE p
    IN  IF c.raised
        THEN [file |-> p, db |-> c.db, items_batch |-> c.items_batch,
              ev |-> "close_failed"]
        ELSE IF IsScrapingComplete(p)
        THEN [file |-> progress_file_default, db |-> c.db,
              items_batch |-> c.items_batch, ev |-> "close_reset"]
        ELSE [file |-> p1, db |-> c.db, items_batch |-> c.items_batch,
              ev |-> "close_saved"]

SaveToDatabaseCloseSpider ==
    /\ pc = "close_persister"
    /\ \E ok \in Outcomes :
         LET res == CloseSpider(file, items_batch, db, item_scraped_count, ok)
         IN  /\ file' = res.file
             /\ db' = res.db
             /\ items_batch' = res.items_batch
             /\ ev' = res.ev
             /\ failures' = failures + (IF ~ok /\ items_batch # {} THEN 1 ELSE 0)
    /\ pc' = "close_spider"
    /\ UNCHANGED <<yielded, catMapFile, pdMapFile, cur, runs, progress,
                   category_subcategory_map, pending, item_scraped_count>>
    /\ UNCHANGED call

\* The spider's closed handler (PingoDoceSpider has none, AuchanSpider's
\* only logs); app.py then crawls the next spider or ends.
SpiderClosed ==
    LET \* ContinenteSpider.closed: reload, recount the scraped categories, save,
        \* and save the category map.
        ContinenteClosed(p) ==
            [p EXCEPT !.scraped_categories["continente"] =
                          Cardinality(p.categories_scraped["continente"])]
    IN  /\ pc = "close_spider"
        /\ IF cur = "continente"
           THEN /\ file' = ContinenteClosed(file)
                /\ catMapFile' = category_subcategory_map
           ELSE UNCHANGED <<file, catMapFile>>
        /\ cur' = CASE cur = "continente" -> "pingo_doce"
                  [] cur = "pingo_doce" -> "auchan"
                  [] OTHER -> "continente"
        /\ pc' = IF cur = "auchan" THEN "idle" ELSE "open"
        /\ progress' = progress_file_default
        /\ category_subcategory_map' = EmptyMap
        /\ items_batch' = {}
        /\ item_scraped_count' = 0
        /\ ev' = "closed"
        /\ UNCHANGED <<pdMapFile, db, runs, pending, yielded, failures>>
        /\ UNCHANGED call

\* The process is killed: what it held in memory is gone, the files and the
\* database stay as they are.
Crash ==
    /\ pc # "idle"
    /\ runs < MaxRuns
    /\ pc' = "idle"
    /\ cur' = "continente"
    /\ progress' = progress_file_default
    /\ category_subcategory_map' = EmptyMap
    /\ pending' = {}
    /\ yielded' = {}
    /\ items_batch' = {}
    /\ item_scraped_count' = 0
    /\ ev' = "crash"
    /\ UNCHANGED <<failures, file, catMapFile, pdMapFile, db, runs>>
    /\ UNCHANGED call

Next ==
    \/ Start
    \/ OpenCrawl
    \/ ContinenteParseCategoryLinks
    \/ PingoDoceParse
    \/ AuchanParse
    \/ SaveToDatabaseProcessItem
    \/ ContinenteParseProducts
    \/ PingoDoceParseProducts
    \/ AuchanParseProducts
    \/ PostCloseSpider
    \/ SaveToDatabaseCloseSpider
    \/ SpiderClosed
    \/ Crash

Spec == Init /\ [][Next]_vars

(***************************************************************************)
(* Vocabulary of the properties.                                           *)
(***************************************************************************)

\* The sub-categories of category c that spider s knows from its latest
\* category map.
KnownSubs(s, c) ==
    CASE s = "continente" -> catMapFile.subs[c]
      [] s = "pingo_doce" -> pdMapFile.subs[c]
      [] OTHER            -> file.auchan_categories_dict.subs[c]

\* The checkpoint on disk keeps spider s from requesting sub-category sub
\* of category c again: the category is marked scraped or, for Continente,
\* the sub-category is.
MarkedScraped(s, c, sub) ==
    \/ c \in file.categories_scraped[s]
    \/ s = "continente" /\ sub \in file.continente_subcategories_scraped[c]

\* The sub-categories that the checkpoint record p lists as completed for
\* category c of source s: Continente's map, PingoDoce's when the record
\* has the key, and none for Auchan, which the record gives no such map.
CompletedSubs(p, s, c) ==
    CASE s = "continente" -> p.continente_subcategories_scraped[c]
      [] s = "pingo_doce" ->
            IF p.pdsubs_key THEN p.pingo_doce_subcategories_scraped[c] ELSE {}
      [] OTHER -> {}

\* The record is in the database the checkpoint names.
Stored(r) == r \in BagToSet(db)

\* C1: in every state, a category or sub-category that the checkpoint file
\* marks scraped has none of its records in the persister's buffer and none
\* still to be fetched.
C1_MarkedOnlyAfterCommit ==
    LET \* A record of (s, c, sub) sits in the persister's buffer.
        Buffered(s, c, sub) ==
            \E r \in items_batch : r[1] = s /\ r[2] = c /\ r[3] = sub
        \* A page of (s, c, sub) that carries a record is still to be fetched.
        Unfetched(s, c, sub) ==
            /\ pc = "crawl"
            /\ cur = s
            /\ \E q \in pending : q.cat = c /\ q.sub = sub /\ q.page <= Pages(sub)
    IN  \A s \in Sources, c \in Cats, sub \in Subs :
            MarkedScraped(s, c, sub) => ~Buffered(s, c, sub) /\ ~Unfetched(s, c, sub)

\* C2: when the process has been killed, the records that a restart from
\* the saved checkpoint never stores number at most one batch (stated for
\* the runs in which no commit has failed: the loss is by the kill alone).
C2_AtMostOneBatchLost ==
    LET \* The records that are never stored after a restart: records of a known
        \* sub-category that the checkpoint keeps from being requested again and
        \* that the database lacks.
        NeverStored ==
            { r \in Sources \X Cats \X Subs \X (1..NPages) :
                /\ r[4] <= Pages(r[3])
                /\ r[3] \in KnownSubs(r[1], r[2])
                /\ MarkedScraped(r[1], r[2], r[3])
                /\ ~Stored(r) }
    IN  ev = "crash" /\ failures = 0 => Cardinality(NeverStored) <= BATCH_SIZE

\* C3: no record is stored twice in the database, also when a run was
\* interrupted after some batches were committed and run again.
C3_NoRecordStoredTwice ==
    \A r \in BagToSet(db) : CopiesIn(r, db) <= 1

\* For each of the three sources the scraped count has reached the total.
AllReached(p) ==
    \A s \in Sources : p.scraped_categories[s] >= p.total_categories[s]

\* C4: is_scraping_complete() is true exactly when scraped >= total holds
\* of the file for each of the three sources: the post-processing pipeline,
\* which asks it at close and leaves the file alone, has run its pass iff
\* all three pairs of the file satisfy it.
C4_CompleteIffAllReached ==
    pc = "close_persister" => ((ev = "post_run") <=> AllReached(file))

\* One source short of its total, the others at theirs: the pass is skipped.
C4_Witness ==
    /\ pc = "close_persister"
    /\ ev = "post_skip"
    /\ file.total_categories["continente"] > 0
    /\ file.scraped_categories["continente"] >= file.total_categories["continente"]
    /\ file.scraped_categories["pingo_doce"] < file.total_categories["pingo_doce"]

\* C5: when the post-processing pass starts, completion holds of the file
\* and the persister has flushed its buffer: no record of the crawl is
\* still uncommitted.
C5_PostPassAfterFlush ==
    ev = "post_run" => AllReached(file) /\ items_batch = {}

\* A category leaves a completed-category set, or a scraped count drops.
Regresses ==
    \E s \in Sources :
        \/ ~(file.categories_scraped[s] \subseteq file'.categories_scraped[s])
        \/ file'.scraped_categories[s] < file.scraped_categories[s]

\* The step is Continente's discovery pass and the fresh map lacks a
\* category or a sub-category of the previous one.
PruningPass ==
    /\ pc = "discover"
    /\ cur = "continente"
    /\ \/ ~(category_subcategory_map.cats \subseteq catMapFile'.cats)
       \/ \E c \in Cats :
            ~(category_subcategory_map.subs[c] \subseteq catMapFile'.subs[c])

\* The step is the persister's close writing the template on completion.
ResetOnCompletion ==
    /\ pc = "close_persister"
    /\ AllReached(file)
    /\ file' = progress_file_default

\* C6 as claimed: a category leaves a completed-category set, or a scraped
\* count decreases, only in a discovery pass that pruned a removed category
\* or sub-category.
C6_RegressOnlyByPruning == [][Regresses => PruningPass]_vars

\* C6 as amended: ... only in such a discovery pass, or when the persister's
\* close resets the checkpoint to the template on global completion.
C6_RegressOnlyByPruningOrReset ==
    [][Regresses => PruningPass \/ ResetOnCompletion]_vars

\* A discovery pass has just taken a category out of the completed set.
C6_Witness == ev = "pruned"

\* C7: in every saved checkpoint, a category in a completed-category set has
\* every sub-category of the latest category map in the completed
\* sub-category set.
C7_ScrapedCategoryHasAllSubs ==
    \A s \in Sources : \A c \in file.categories_scraped[s] :
        KnownSubs(s, c) \subseteq CompletedSubs(file, s, c)

\* C8: right after Continente's discovery pass has saved the checkpoint, the
\* completed collections hold nothing that the fresh map lacks, and every
\* category still in the completed set has all its current sub-categories
\* completed.
C8_PrunedAfterDiscovery ==
    ev \in {"discover", "pruned"} /\ cur = "continente" =>
        /\ file.categories_scraped["continente"] \subseteq catMapFile.cats
        /\ \A c \in Cats :
             file.continente_subcategories_scraped[c] \subseteq catMapFile.subs[c]
        /\ \A c \in file.categories_scraped["continente"] :
             catMapFile.subs[c] \subseteq file.continente_subcategories_scraped[c]

\* The persister's close has run to its end (its commit did not raise).
PersisterClosed ==
    /\ pc = "close_persister"
    /\ pc' = "close_spider"
    /\ ev' # "close_failed"

C10_FailedCommitRollsBack ==
    [][failures' # failures =>
         /\ db' = db
         /\ file' = file
         /\ ev' \in {"commit_failed", "close_failed"}
      ]_vars

\* A commit of a full buffer has just failed.
C10_Witness ==
    ev = "commit_failed" /\ Cardinality(items_batch) >= BATCH_SIZE /\ db # EmptyBag

(***************************************************************************)
(* The persister's buffer and item counter.                                *)
(***************************************************************************)

\* The step is a process_item that returned, no commit having failed so far.
ProcessReturned ==
    /\ ev' \in {"commit_ok", "buffered"}
    /\ failures' = 0

\* C12: as long as commits succeed, the buffer holds fewer than BATCH_SIZE
\* records when process_item returns; the call that brings the buffer to
\* BATCH_SIZE commits all of it and leaves it empty, and a call that leaves
\* it shorter commits nothing.
C12_FlushAtThreshold ==
    [][ProcessReturned =>
         /\ Cardinality(items_batch') < BATCH_SIZE
         /\ Cardinality(items_batch) + 1 = BATCH_SIZE =>
                /\ items_batch' = {}
                /\ \A r \in items_batch : CopiesIn(r, db') = CopiesIn(r, db) + 1
         /\ Cardinality(items_batch) + 1 < BATCH_SIZE =>
                /\ db' = db
                /\ Cardinality(items_batch') = Cardinality(items_batch) + 1
      ]_vars

\* The call that filled the buffer has committed it.
C12_Witness ==
    ev = "commit_ok" /\ failures = 0 /\ items_batch = {} /\ db # EmptyBag

\* C13: a close of the persister that does not see completion saves
\* scraped_items raised by the number of items scraped in the run, whatever
\* is left in the buffer (nothing included); stated for runs without a
\* failed commit.
C13_CloseAddsItemCount ==
    [][pc = "close_persister" /\ ev' = "close_saved" /\ failures' = 0 =>
         file'.scraped_items = file.scraped_items + item_scraped_count
      ]_vars

(***************************************************************************)
(* Requests.                                                               *)
(***************************************************************************)

\* The step is a spider's category-discovery callback.
Discovery == pc = "discover" /\ pc' = "crawl"

\* C14 as claimed: the product-page requests a discovery pass issues are
\* for categories that the checkpoint it loaded does not mark scraped and,
\* for Continente, for sub-categories that it does not mark scraped.
C14_RequestsOnlyForUnmarked ==
    [][Discovery =>
         \A q \in pending' :
            /\ q.cat \notin file.categories_scraped[cur]
            /\ cur = "continente" =>
                 q.sub \notin file.continente_subcategories_scraped[q.cat]
      ]_vars

\* C14 as amended: for Continente the marks are those of the loaded
\* checkpoint after the pass has pruned what the site no longer lists (the
\* record the pass saves); for PingoDoce and Auchan those of the loaded
\* checkpoint.  Every later request is for a sub-category of a request that
\* was issued before in the same crawl.
C14_RequestsOnlyForUnmarkedAfterPruning ==
    [][/\ Discovery =>
            \A q \in pending' :
               IF cur = "continente"
               THEN /\ q.cat \notin file'.categories_scraped[cur]
                    /\ q.sub \notin file'.continente_subcategories_scraped[q.cat]
               ELSE q.cat \notin file.categories_scraped[cur]
       /\ pc = "crawl" /\ pc' = "crawl" =>
            \A q \in pending' :
               \E q0 \in pending \cup yielded : q0.cat = q.cat /\ q0.sub = q.sub
      ]_vars

\* A discovery pass has pruned the checkpoint and requested the
\* sub-category that replaced a stored one.
C14_Witness ==
    /\ ev = "pruned"
    /\ cur = "continente"
    /\ catMapFile.subs["c1"] = {"s2"}
    /\ Stored(Rec("continente", "c1", "s1", 1))
    /\ \E q \in pending : q.cat = "c1" /\ q.sub = "s2"

(***************************************************************************)
(* ProductScraperPipeline._parse_price.  A string is a sequence of         *)
(* characters; "x" stands for any character that is not a digit, a         *)
(* separator or white space (a currency sign, a letter, a minus sign) and  *)
(* " " for any white space.  A price is a number of cents, a numeric       *)
(* argument a number of thousandths.  The digits and the numeric arguments *)
(* are such that no value lies halfway between two cents.                  *)
(***************************************************************************)
Digit == {"1", "2"}

\* The characters str.isdigit accepts in the model, and their values.
DecimalDigit == {"0", "1", "2", "3", "4", "5", "6", "7", "8", "9"}

RECURSIVE Pow10(_)
Pow10(n) == IF n = 0 THEN 1 ELSE 10 * Pow10(n - 1)

\* The number written by a sequence of digits (0 for none).
RECURSIVE Number(_)
Number(ds) ==
    LET DigitValue(ch) ==
            CASE ch = "0" -> 0 [] ch = "1" -> 1 [] ch = "2" -> 2 [] ch = "3" -> 3
              [] ch = "4" -> 4 [] ch = "5" -> 5 [] ch = "6" -> 6 [] ch = "7" -> 7
              [] ch = "8" -> 8 [] ch = "9" -> 9
    IN  IF ds = <<>> THEN 0
        ELSE 10 * Number(SubSeq(ds, 1, Len(ds) - 1)) + DigitValue(ds[Len(ds)])

\* round(x, 2) of x = m / 10^e, in cents.
Round2(m, e) ==
    IF e <= 2 THEN m * Pow10(2 - e)
    ELSE LET d == Pow10(e - 2)
             q == IF m >= 0 THEN (2 * m + d) \div (2 * d)
                            ELSE -((2 * (-m) + d) \div (2 * d))
         IN  q

\* str.count, str.rfind (0 when absent), str.replace(ch, ''),
\* str.replace(a, b), str.strip.
Count(str, ch) == Cardinality({ i \in 1..Len(str) : str[i] = ch })
RFind(str, ch) ==
    LET at == { i \in 1..Len(str) : str[i] = ch }
    IN  IF at = {} THEN 0 ELSE CHOOSE i \in at : \A j \in at : j <= i
Remove(str, ch) == SelectSeq(str, LAMBDA c : c # ch)
Replace(str, a, b) == [i \in 1..Len(str) |-> IF str[i] = a THEN b ELSE str[i]]
RECURSIVE Strip(_)
Strip(str) ==
    IF str = <<>> THEN str
    ELSE IF Head(str) = " " THEN Strip(Tail(str))
    ELSE IF str[Len(str)] = " " THEN Strip(SubSeq(str, 1, Len(str) - 1))
    ELSE str

\* parts = value.split(ch); ''.join(parts[:-1]) + '.' + parts[-1]
JoinLast(str, ch) ==
    LET last == RFind(str, ch)
    IN  Remove(SubSeq(str, 1, last - 1), ch) \o <<".">>
            \o SubSeq(str, last + 1, Len(str))

\* float(str): white space around the numeral is ignored; the numeral is
\* digits with at most one point and at least one digit.  error is the
\* ValueError; otherwise the value is m / 10^e.
Float(str) ==
    LET t == Strip(str)
        point == RFind(t, ".")
        digits == Remove(t, ".")
    IN  IF \/ digits = <<>>
           \/ Count(t, ".") > 1
           \/ \E i \in 1..Len(digits) : digits[i] \notin DecimalDigit
        THEN [error |-> TRUE, m |-> 0, e |-> 0]
        ELSE [error |-> FALSE, m |-> Number(digits),
              e |-> IF point = 0 THEN 0 ELSE Len(t) - point]

\* The string branch of _parse_price up to the call of float.
NormalizePrice(chars) ==
    LET value == Strip(SelectSeq(chars, LAMBDA c : c # "x"))
    IN  IF Count(value, ",") > 0 /\ Count(value, ".") > 0
        THEN IF RFind(value, ",") > RFind(value, ".")
             THEN Replace(Remove(value, "."), ",", ".")
             ELSE Remove(value, ",")
        ELSE IF Count(value, ",") > 1 THEN JoinLast(value, ",")
        ELSE IF Count(value, ".") > 1 THEN JoinLast(value, ".")
        ELSE Replace(value, ",", ".")

\* A _parse_price that lets the error of float out.
ParsePriceUncaught(value) ==
    IF value.kind = "num"
    THEN [raised |-> FALSE, cents |-> Round2(value.mills, 3)]
    ELSE IF value.kind = "str"
    THEN LET f == Float(NormalizePrice(value.chars))
         IN  IF f.error
             THEN [raised |-> TRUE, cents |-> 0]
             ELSE [raised |-> FALSE, cents |-> Round2(f.m, f.e)]
    ELSE [raised |-> FALSE, cents |-> 0]

\* _parse_price(value): the price it returns, and whether it raised.
ParsePrice(value) ==
    IF value.kind = "num"
    THEN [raised |-> FALSE, cents |-> Round2(value.mills, 3)]
    ELSE IF value.kind = "str"
    THEN LET f == Float(NormalizePrice(value.chars))
         IN  IF f.error
             THEN [raised |-> FALSE, cents |-> 0]
             ELSE [raised |-> FALSE, cents |-> Round2(f.m, f.e)]
    ELSE [raised |-> FALSE, cents |-> 0]

\* The arguments: a number (int or float), a string, or something else
\* (None, a list).
NumValue(n) == [kind |-> "num", mills |-> n, chars |-> <<>>]
StrValue(str) == [kind |-> "str", mills |-> 0, chars |-> str]

PriceInit ==
    LET OtherValue == [kind |-> "other", mills |-> 0, chars |-> <<>>]
        PriceChars == Digit \cup {",", ".", " ", "x"}
        Strings == UNION { [1..n -> PriceChars] : n \in 0..MaxLen }
        PriceInputs ==
            { NumValue(n) : n \in {-1999, -1000, -1, 0, 1, 1004, 2349} }
                \cup { StrValue(str) : str \in Strings } \cup {OtherValue}
    IN  /\ InitProcess
        /\ call \in { [fn |-> "parse_price", state |-> "called", arg |-> v,
                       result |-> [raised |-> FALSE, cents |-> 0]] : v \in PriceInputs }

ParsePriceCall ==
    /\ call.fn = "parse_price"
    /\ call.state = "called"
    /\ call' = [call EXCEPT !.state = "returned", !.result = ParsePrice(call.arg)]
    /\ UNCHANGED processVars

PriceNext == ParsePriceCall

PriceSpec == PriceInit /\ [][PriceNext]_vars

\* _parse_price has returned or raised.
PriceReturned == call.fn = "parse_price" /\ call.state = "returned"

\* C17: the price _parse_price returns is >= 0, for every numeric argument
\* and every string.
C17_PriceNonNegative ==
    PriceReturned => call.result.cents >= 0

\* C18: _parse_price never raises, and returns 0.00 for an argument that is
\* neither a number nor a string and for a string that writes no decimal
\* numeral.
C18_NeverRaisesZeroWhenUnparseable ==
    LET \* A string that writes no decimal numeral: without the characters that are
        \* dropped it has no digit (it is empty or made of separators and white
        \* space), or it has white space between two digits.
        Unparseable(chars) ==
            LET kept == SelectSeq(chars, LAMBDA c : c # "x")
            IN  \/ \A i \in 1..Len(kept) : kept[i] \notin Digit
                \/ \E i, j, k \in 1..Len(kept) :
                      /\ i < j /\ j < k
                      /\ kept[i] \in Digit /\ kept[j] = " " /\ kept[k] \in Digit
    IN  PriceReturned =>
            /\ ~call.result.raised
            /\ \/ call.arg.kind = "other"
               \/ call.arg.kind = "str" /\ Unparseable(call.arg.chars)
               => call.result.cents = 0

\* Digits separated by white space gave 0.00.
C18_Witness ==
    /\ PriceReturned
    /\ call.arg = StrValue(<<"1", " ", "2">>)
    /\ call.result = [raised |-> FALSE, cents |-> 0]

\* C19: for a string of digits, commas and dots with at least one separator
\* (and at least one digit), the price is the number whose integer part is
\* written by the digits left of the right-most separator and whose
\* fraction by the digits right of it.
C19_RightmostSeparatorIsDecimal ==
    PriceReturned /\ call.arg.kind = "str" =>
        LET str == call.arg.chars
            seps == { i \in 1..Len(str) : str[i] \in {",", "."} }
            last == CHOOSE i \in seps : \A j \in seps : j <= i
            digits == SelectSeq(str, LAMBDA c : c \in Digit)
            fraction == SelectSeq(SubSeq(str, last + 1, Len(str)),
                                  LAMBDA c : c \in Digit)
        IN  /\ \A i \in 1..Len(str) : str[i] \in Digit \cup {",", "."}
            /\ seps # {}
            /\ digits # <<>>
            => call.result.cents = Round2(Number(digits), Len(fraction))

(***************************************************************************)
(* One flush followed item by item: the items as the spider yields them,   *)
(* ProductScraperPipeline.process_item on each, then the loop of           *)
(* SaveToDatabase._commit_batch and its commit.  An item is: its store,    *)
(* its name, the field it lacks if any, and its three prices.              *)
(***************************************************************************)

\* The stores create_new_database inserts.
StoreNames == {"continente", "pingo doce", "auchan"}

\* re.sub(r'[\s/€]+', ' ', value): every run of blanks becomes one blank.
RECURSIVE Collapse(_)
Collapse(chars) ==
    IF Len(chars) < 2 THEN chars
    ELSE IF chars[1] = " " /\ chars[2] = " " THEN Collapse(Tail(chars))
    ELSE <<chars[1]>> \o Collapse(Tail(chars))

\* The normalisation of a string field; a value that is no string is kept.
CleanValue(value) ==
    IF value.kind = "str" THEN StrValue(Strip(Collapse(value.chars)))
    ELSE value

\* The loop over the batch from item i on: what has been added to the
\* session, the lines appended to skiped_products.txt, and whether an error
\* left the loop.
RECURSIVE StageLoop(_, _, _)
StageLoop(batch, i, acc) ==
    LET \* The body of the loop of _commit_batch for one item: the store is looked
        \* up first (unknown: continue), then a zero price is written to the
        \* skip-list (continue), then the product is built and added.  A KeyError
        \* of the body is caught by a handler that prints item['name'] and
        \* item['category']: for an item without a name the handler raises itself
        \* and ends the flush.
        StageItem(item) ==
            IF item.store \notin StoreNames THEN "skipped_store"
            ELSE IF item.primary_price = 0 \/ item.secondary_price = 0
            THEN IF item.lacks = "name" THEN "abort" ELSE "skipped_price"
            ELSE IF item.lacks = "name" THEN "abort"
            ELSE IF item.lacks = "img_lnk" THEN "skipped_error"
            ELSE "staged"
    IN  IF i > Len(batch) THEN acc
        ELSE LET item == batch[i]
                 outcome == StageItem(item)
             IN  CASE outcome = "abort" -> [acc EXCEPT !.raised = TRUE]
                   [] outcome = "staged" ->
                        StageLoop(batch, i + 1,
                                  [acc EXCEPT !.staged = Append(@, item)])
                   [] outcome = "skipped_price" ->
                        StageLoop(batch, i + 1,
                                  [acc EXCEPT !.skiped =
                                       Append(@, <<item.store, item.name>>)])
                   [] OTHER -> StageLoop(batch, i + 1, acc)

ItemInit ==
    LET \* The prices a spider yields: strings and a number.
        RawPrices ==
            { StrValue(<<"1">>), StrValue(<<" ", "2">>), StrValue(<<>>),
              NumValue(-1000) }
        \* The items a spider can yield.  lacks names a field the item has no
        \* value for ("" for none): "name", or "img_lnk".
        RawItems ==
            [ store : {"Continente", "Mercado"},
              name : {"n"},
              lacks : {"", "name", "img_lnk"},
              primary_price : RawPrices,
              before_discount_price : { StrValue(<<>>), StrValue(<<"1">>), StrValue(<<"2">>) },
              secondary_price : { StrValue(<<"1">>), StrValue(<<>>) } ]
        NoFlush == [committed |-> <<>>, skiped |-> <<>>, items_batch |-> <<>>,
                    raised |-> FALSE]
    IN  /\ InitProcess
        /\ call \in { [fn |-> "flush", state |-> "yielded", items |-> items,
                       ok |-> TRUE, result |-> NoFlush] :
                      items \in UNION { [1..n -> RawItems] : n \in 1..MaxItems } }

\* Every item goes through ProductScraperPipeline.process_item and is
\* appended to the buffer by SaveToDatabase.process_item.
CleanItems ==
    LET \* str.lower() on the store names of the model.
        Lower(str) ==
            CASE str = "Continente" -> "continente"
              [] str = "Mercado" -> "mercado"
              [] OTHER -> str
        \* ProductScraperPipeline.process_item: strings normalised and lower-cased,
        \* prices parsed, has_discount filled.
        CleanItem(item) ==
            LET primary == ParsePrice(CleanValue(item.primary_price)).cents
                before_discount ==
                    ParsePrice(CleanValue(item.before_discount_price)).cents
            IN  [ store |-> Lower(item.store),
                  name |-> Lower(item.name),
                  lacks |-> item.lacks,
                  primary_price |-> primary,
                  before_discount_price |-> before_discount,
                  secondary_price |->
                      ParsePrice(CleanValue(item.secondary_price)).cents,
                  has_discount |-> before_discount > primary /\ before_discount # 0 ]
    IN  /\ call.fn = "flush"
        /\ call.state = "yielded"
        /\ call' = [call EXCEPT !.state = "buffered",
                                !.items = [i \in 1..Len(call.items) |->
                                              CleanItem(call.items[i])]]
        /\ UNCHANGED processVars

FlushItems ==
    LET \* _commit_batch on a batch of cleaned items: the products committed, the
        \* lines appended to the skip-list, the buffer afterwards and whether it
        \* raised.  ok: the commit succeeds.
        CommitItems(batch, ok) ==
            LET loop == StageLoop(batch, 1, [staged |-> <<>>, skiped |-> <<>>,
                                             raised |-> FALSE])
            IN  IF loop.raised \/ ~ok
                THEN [committed |-> <<>>, skiped |-> loop.skiped,
                      items_batch |-> batch, raised |-> TRUE]
                ELSE [committed |-> loop.staged, skiped |-> loop.skiped,
                      items_batch |-> <<>>, raised |-> FALSE]
    IN  /\ call.fn = "flush"
        /\ call.state = "buffered"
        /\ \E ok \in BOOLEAN :
             call' = [call EXCEPT !.state = "flushed", !.ok = ok,
                                  !.result = CommitItems(call.items, ok)]
        /\ UNCHANGED processVars

ItemNext == CleanItems \/ FlushItems

ItemSpec == ItemInit /\ [][ItemNext]_vars

Flushed == call.fn = "flush" /\ call.state = "flushed"

ZeroPriced(item) == item.primary_price = 0 \/ item.secondary_price = 0

\* C11: after a flush that raised nothing, no committed product has a zero
\* primary or secondary price, and every zero-priced item of the batch that
\* carries a name, whatever its store, has its line <<store, name>> in the
\* skip-list.
C11_ZeroPricedSkippedAndListed ==
    Flushed /\ ~call.result.raised =>
        /\ \A j \in 1..Len(call.result.committed) :
              ~ZeroPriced(call.result.committed[j])
        /\ \A i \in 1..Len(call.items) :
              ZeroPriced(call.items[i]) /\ call.items[i].lacks # "name" =>
                  \E k \in 1..Len(call.result.skiped) :
                      call.result.skiped[k] =
                          <<call.items[i].store, call.items[i].name>>

\* C15: a flush whose commit succeeds raises nothing, and commits every item
\* of the batch that has a known store, non-zero prices and all its fields,
\* whatever the other items of the batch are.
C15_SkipNeverAbortsFlush ==
    Flushed /\ call.ok =>
        /\ ~call.result.raised
        /\ \A i \in 1..Len(call.items) :
              /\ call.items[i].store \in StoreNames
              /\ ~ZeroPriced(call.items[i])
              /\ call.items[i].lacks = ""
              => \E j \in 1..Len(call.result.committed) :
                     call.result.committed[j] = call.items[i]

\* C16: every committed product has has_discount exactly when its
\* before-discount price is above its primary price and its primary price
\* is above zero.
C16_HasDiscountFormula ==
    Flushed =>
        \A j \in 1..Len(call.result.committed) :
            LET product == call.result.committed[j]
            IN  product.has_discount =
                    (/\ product.before_discount_price > product.primary_price
                     /\ product.primary_price > 0)

\* The first index, from i on, at which flags is true; 0 for none.
RECURSIVE FirstTrue(_, _)
FirstTrue(flags, i) ==
    IF i > Len(flags) THEN 0
    ELSE IF flags[i] THEN i
    ELSE FirstTrue(flags, i + 1)

(***************************************************************************)
(* standardize_quantity.  A string is a sequence of characters, " " stands *)
(* for any white space.  A regular expression of the function is a         *)
(* sequence of elements: a greedy repetition of a character class, an      *)
(* ordered alternation of words, or a word boundary; group is the number   *)
(* of the capturing group the element belongs to (0 for none).             *)
(***************************************************************************)
Rep(class, min, max, group) ==
    [kind |-> "rep", class |-> class, min |-> min, max |-> max,
     alts |-> <<>>, group |-> group]
Alt(alts, group) ==
    [kind |-> "alt", class |-> {}, min |-> 0, max |-> 0,
     alts |-> alts, group |-> group]
Boundary ==
    [kind |-> "bound", class |-> {}, min |-> 0, max |-> 0,
     alts |-> <<>>, group |-> 0]
Lit(word) == Alt(<<word>>, 0)
\* (?:A|B): alts are the sequences of elements A, B; ^ and $.
Choice(alts) ==
    [kind |-> "choice", class |-> {}, min |-> 0, max |-> 0,
     alts |-> alts, group |-> 0]
Anchor(at) ==
    [kind |-> at, class |-> {}, min |-> 0, max |-> 0,
     alts |-> <<>>, group |-> 0]

\* The longest repetition the model needs: longer than any string.
Many == 64

NoCaps == <<<<>>, <<>>, <<>>, <<>>, <<>>>>
NoMatch == [ok |-> FALSE, start |-> 0, end |-> 0, caps |-> NoCaps]

\* \w in the model: letters and digits.
WordChars ==
    DecimalDigit \cup
    {"a", "b", "c", "d", "e", "g", "i", "k", "l", "m", "n", "o", "p", "q",
     "r", "s", "t", "u", "x", "á", "í"}

\* \b at position pos: exactly one of the characters around it is in \w.
AtBoundary(str, pos) ==
    LET before == pos > 1 /\ pos - 1 <= Len(str) /\ str[pos - 1] \in WordChars
        after == pos >= 1 /\ pos <= Len(str) /\ str[pos] \in WordChars
    IN  before # after

\* The word is in str at pos.
WordAt(str, pos, word) ==
    /\ pos + Len(word) - 1 <= Len(str)
    /\ \A i \in 1..Len(word) : str[pos + i - 1] = word[i]

\* The length of the longest run of characters of class at pos, at most max.
Run(str, pos, class, max) ==
    LET lengths == { n \in 0..(Len(str) - pos + 1) :
                    /\ n <= max
                    /\ \A i \in 0..(n - 1) : str[pos + i] \in class }
    IN  CHOOSE n \in lengths : \A m \in lengths : m <= n

Capture(caps, group, text) ==
    IF group = 0 THEN caps ELSE [caps EXCEPT ![group] = @ \o text]

\* The backtracking match of the elements k.. of pat against str at pos:
\* a repetition tries its longest run first, an alternation its words in
\* order, and the first way that lets the rest match is taken.
RECURSIVE MatchFrom(_, _, _, _, _)
RECURSIVE TryRep(_, _, _, _, _, _)
RECURSIVE TryAlt(_, _, _, _, _, _)
MatchFrom(pat, k, str, pos, caps) ==
    IF k > Len(pat)
    THEN [ok |-> TRUE, start |-> 0, end |-> pos, caps |-> caps]
    ELSE CASE pat[k].kind = "rep" ->
                TryRep(pat, k, str, pos, caps,
                       Run(str, pos, pat[k].class, pat[k].max))
           [] pat[k].kind = "alt" -> TryAlt(pat, k, str, pos, caps, 1)
           [] pat[k].kind = "choice" ->
                LET ways == [a \in 1..Len(pat[k].alts) |->
                                MatchFrom(pat[k].alts[a]
                                              \o SubSeq(pat, k + 1, Len(pat)),
                                          1, str, pos, caps)]
                    way == FirstTrue([a \in 1..Len(ways) |-> ways[a].ok], 1)
                IN  IF way = 0 THEN NoMatch ELSE ways[way]
           [] pat[k].kind = "^" ->
                IF pos = 1 THEN MatchFrom(pat, k + 1, str, pos, caps)
                ELSE NoMatch
           [] pat[k].kind = "$" ->
                IF pos = Len(str) + 1
                THEN MatchFrom(pat, k + 1, str, pos, caps)
                ELSE NoMatch
           [] OTHER -> IF AtBoundary(str, pos)
                       THEN MatchFrom(pat, k + 1, str, pos, caps)
                       ELSE NoMatch
TryRep(pat, k, str, pos, caps, n) ==
    IF n < pat[k].min THEN NoMatch
    ELSE LET rest == MatchFrom(pat, k + 1, str, pos + n,
                               Capture(caps, pat[k].group,
                                       SubSeq(str, pos, pos + n - 1)))
         IN  IF rest.ok THEN rest ELSE TryRep(pat, k, str, pos, caps, n - 1)
TryAlt(pat, k, str, pos, caps, a) ==
    IF a > Len(pat[k].alts) THEN NoMatch
    ELSE LET word == pat[k].alts[a]
             rest == IF WordAt(str, pos, word)
                     THEN MatchFrom(pat, k + 1, str, pos + Len(word),
                                    Capture(caps, pat[k].group, word))
                     ELSE NoMatch
         IN  IF rest.ok THEN rest ELSE TryAlt(pat, k, str, pos, caps, a + 1)

\* re.search(pat, str) from position from on: the match at the leftmost
\* position that has one.  anchored: the expression starts with ^.
Search(pat, anchored, str, from) ==
    LET starts == { p \in from..(IF anchored THEN 1 ELSE Len(str) + 1) :
                      MatchFrom(pat, 1, str, p, NoCaps).ok }
    IN  IF starts = {} THEN NoMatch
        ELSE LET p == CHOOSE q \in starts : \A r \in starts : q <= r
             IN  [MatchFrom(pat, 1, str, p, NoCaps) EXCEPT !.start = p]

LowerString(str) ==
    LET \* str.lower() on the characters of the model.
        LowerChar(ch) ==
            CASE ch = "G" -> "g" [] ch = "K" -> "k" [] ch = "L" -> "l"
              [] ch = "U" -> "u" [] ch = "N" -> "n" [] ch = "X" -> "x"
              [] ch = "A" -> "a" [] ch = "B" -> "b" [] ch = "M" -> "m"
              [] ch = "T" -> "t" [] ch = "R" -> "r" [] ch = "I" -> "i"
              [] ch = "S" -> "s" [] ch = "Á" -> "á"
              [] OTHER -> ch
    IN  [i \in 1..Len(str) |-> LowerChar(str[i])]

\* re.sub(NoiseWords, '', str) from position from on.
RECURSIVE RemoveNoise(_, _)
RemoveNoise(str, from) ==
    LET \* \b(emb\.?|quant\. mínima =|aprox\.?|grátis|aproximadamente|cerca de)\b
        NoiseWords ==
            <<Boundary,
              Alt(<<<<"e", "m", "b", ".">>,
                      <<"e", "m", "b">>,
                      <<"q", "u", "a", "n", "t", ".", " ", "m", "í", "n", "i", "m", "a", " ", "=">>,
                      <<"a", "p", "r", "o", "x", ".">>,
                      <<"a", "p", "r", "o", "x">>,
                      <<"g", "r", "á", "t", "i", "s">>,
                      <<"a", "p", "r", "o", "x", "i", "m", "a", "d", "a", "m", "e", "n", "t", "e">>,
                      <<"c", "e", "r", "c", "a", " ", "d", "e">>>>, 0),
              Boundary>>
    IN  LET m == Search(NoiseWords, FALSE, str, from)
        IN  IF ~m.ok THEN SubSeq(str, from, Len(str))
            ELSE SubSeq(str, from, m.start - 1) \o RemoveNoise(str, m.end)

WeightVolumeUnits == <<<<"g">>,
        <<"g", "r">>,
        <<"m", "l">>,
        <<"l">>,
        <<"l", "t">>,
        <<"c", "l">>,
        <<"k", "g">>>>
DoseWords == <<<<"c", "o", "m", "p", "r", "i", "m", "i", "d", "o", "s">>,
        <<"c", "á", "p", "s", "u", "l", "a", "s">>,
        <<"d", "r", "a", "g", "e", "i", "a", "s">>,
        <<"d", "o", "s", "e", "s">>>>

\* (\d+[\.,]?\d*) as group g.
Decimal(g) ==
    LET Separator == {".", ","}
    IN  <<Rep(DecimalDigit, 1, Many, g), Rep(Separator, 0, 1, g),
          Rep(DecimalDigit, 0, Many, g)>>
Blanks ==
    LET Blank == {" "}
    IN  Rep(Blank, 0, Many, 0)
Integer(g) == Rep(DecimalDigit, 1, Many, g)

\* A number is mant * 2^exp: a Python int, or a float with its mantissa of
\* 53 bits.  mant is a natural number written as its digits in base
\* LimbBase, the lowest first and the highest not 0; it is odd, or it is 0
\* (no digits) with exp = 0.
LimbBase == 32768

\* Quotient and remainder of big by k, 0 < k < LimbBase.
RECURSIVE DivRem(_, _)
DivRem(big, k) ==
    IF big = <<>> THEN [q |-> <<>>, r |-> 0]
    ELSE LET hi == DivRem(Tail(big), k)
             part == hi.r * LimbBase + Head(big)
         IN  [q |-> IF hi.q = <<>> /\ part \div k = 0 THEN <<>>
                    ELSE <<part \div k>> \o hi.q,
              r |-> part % k]

\* mant * 2^exp with the factors 2 of mant moved to the exponent.
RECURSIVE Canonical(_, _)
Canonical(mant, exp) ==
    IF mant = <<>> THEN [mant |-> <<>>, exp |-> 0]
    ELSE IF Head(mant) = 0 THEN Canonical(Tail(mant), exp + 15)
    ELSE IF Head(mant) % 2 = 0 THEN Canonical(DivRem(mant, 2).q, exp + 1)
    ELSE [mant |-> mant, exp |-> exp]

\* mant with its d lowest bits dropped, rounded to nearest, ties to even.
\* guard: the last bit dropped; sticky: something below it was not 0.
RECURSIVE RoundShift(_, _, _, _, _)
RoundShift(mant, exp, d, guard, sticky) ==
    LET RECURSIVE AddOne(_)
        AddOne(big) ==
            IF big = <<>> THEN <<1>>
            ELSE IF Head(big) + 1 < LimbBase THEN <<Head(big) + 1>> \o Tail(big)
            ELSE <<0>> \o AddOne(Tail(big))
        RECURSIVE Pow2(_)
        Pow2(n) == IF n = 0 THEN 1 ELSE 2 * Pow2(n - 1)
    IN  IF d = 0
        THEN IF guard /\ (sticky \/ (mant # <<>> /\ Head(mant) % 2 = 1))
             THEN Canonical(AddOne(mant), exp)
             ELSE Canonical(mant, exp)
        ELSE IF d >= 15
        THEN RoundShift(Tail(mant), exp + 15, d - 15,
                        Head(mant) >= LimbBase \div 2,
                        sticky \/ guard \/ Head(mant) % (LimbBase \div 2) # 0)
        ELSE LET low == DivRem(mant, Pow2(d))
             IN  RoundShift(low.q, exp + d, 0, low.r >= Pow2(d - 1),
                            sticky \/ guard \/ low.r % Pow2(d - 1) # 0)

\* The float nearest to mant * 2^exp (+ something below, if sticky).
Rounded(mant, exp, sticky) ==
    LET RECURSIVE BitsOf(_)
        BitsOf(n) == IF n = 0 THEN 0 ELSE 1 + BitsOf(n \div 2)
        BitLength(big) ==
            IF big = <<>> THEN 0 ELSE 15 * (Len(big) - 1) + BitsOf(big[Len(big)])
        MantissaBits == 53
    IN  IF BitLength(mant) <= MantissaBits THEN Canonical(mant, exp)
        ELSE RoundShift(mant, exp, BitLength(mant) - MantissaBits, FALSE, sticky)

\* The int n, 0 <= n < LimbBase^2.
Whole(n) ==
    LET Limbs(k) ==
            IF k = 0 THEN <<>>
            ELSE IF k < LimbBase THEN <<k>>
            ELSE <<k % LimbBase, k \div LimbBase>>
    IN  Canonical(Limbs(n), 0)

\* x * n for an int n, 0 <= n < LimbBase.
Times(x, n) ==
    LET RECURSIVE MulSmall(_, _, _)
        MulSmall(big, k, carry) ==
            IF big = <<>> THEN (IF carry = 0 THEN <<>> ELSE <<carry>>)
            ELSE LET t == Head(big) * k + carry
                 IN  <<t % LimbBase>> \o MulSmall(Tail(big), k, t \div LimbBase)
    IN  Rounded(MulSmall(x.mant, n, 0), x.exp, FALSE)

\* x / n for an int n, 0 < n < LimbBase.
Over(x, n) ==
    LET \* The digits by which a dividend is extended: the quotient then has more
        \* bits than a mantissa.
        GuardLimbs == 5
    IN  LET d == DivRem([i \in 1..GuardLimbs |-> 0] \o x.mant, n)
        IN  IF x.mant = <<>> THEN x
            ELSE Rounded(d.q, x.exp - 15 * GuardLimbs, d.r # 0)

\* float(text.replace(',', '.')) of a captured decimal: the float nearest
\* to the decimal.
CapturedFloat(text) ==
    LET f == Float(Replace(text, ",", "."))
    IN  Over(Whole(f.m), Pow10(f.e))

\* A conversion that takes a centilitre for a hundred millilitres.
convert_to_base_unit_cl100(value, unit) ==
    IF unit = <<"k", "g">> THEN Times(value, 1000)
    ELSE IF unit \in {<<"l">>, <<"l", "t">>} THEN Times(value, 1000)
    ELSE IF unit = <<"c", "l">> THEN Times(value, 100)
    ELSE value

convert_to_base_unit(value, unit) ==
    IF unit = <<"k", "g">> THEN Times(value, 1000)
    ELSE IF unit \in {<<"l">>, <<"l", "t">>} THEN Times(value, 1000)
    ELSE IF unit = <<"c", "l">> THEN Times(value, 10)
    ELSE value

standardize_unit(unit) ==
    IF unit \in {<<"g">>, <<"g", "r">>, <<"k", "g">>} THEN "g"
    ELSE IF unit \in {<<"m", "l">>, <<"l">>, <<"l", "t">>, <<"c", "l">>} THEN "ml"
    ELSE "UN"

QuantityResult(value, unit, items, total) ==
    [raised |-> FALSE, quantity_value |-> value, quantity_unit |-> unit,
     quantity_items |-> items, quantity_total |-> total]

empty_result == QuantityResult(Whole(1), "un", 1, Whole(1))

\* The shape matchers in the order standardize_quantity tries them.
patterns ==
    LET \* "1,075 gr (38 un)"
        PatternBracketed ==
            Decimal(1) \o <<Blanks, Alt(WeightVolumeUnits, 2), Blanks, Lit(<<"(">>),
                            Integer(3), Blanks, Lit(<<"u", "n">>), Lit(<<")">>)>>
        \* "peso escorrido 41 gr"
        PatternDrained ==
            <<Lit(<<"p", "e", "s", "o">>), Blanks,
              Lit(<<"e", "s", "c", "o", "r", "r", "i", "d", "o">>), Blanks, Integer(1), Blanks,
              Alt(WeightVolumeUnits, 2)>>
        \* "12 x 1 lt"
        PatternPack ==
            <<Integer(1), Blanks, Lit(<<"x">>), Blanks>> \o Decimal(2)
                \o <<Blanks, Alt(WeightVolumeUnits, 3)>>
        \* "100 un + 20 grátis"
        PatternBonus ==
            <<Integer(1), Blanks, Lit(<<"u", "n">>), Blanks, Lit(<<"+">>), Blanks, Integer(2)>>
        \* "2 x emb. 10 un"
        PatternPackUnits ==
            <<Integer(1), Blanks, Lit(<<"x">>), Blanks, Alt(<<<<"e", "m", "b", ".">>, <<>>>>, 0),
              Blanks, Integer(2), Blanks, Lit(<<"u", "n">>)>>
        \* "40 un", only at the start of the string
        PatternUnits == <<Integer(1), Blanks, Lit(<<"u", "n">>)>>
        \* "200g", "1.5kg"
        PatternWeight == Decimal(1) \o <<Blanks, Alt(WeightVolumeUnits, 2)>>
        \* "emb. 20 comprimidos"
        PatternPackDoses ==
            <<Lit(<<"e", "m", "b">>), Rep({"."}, 0, 1, 0), Blanks, Integer(1), Blanks,
              Alt(DoseWords, 2)>>
        \* "90 cápsulas"
        PatternDoses == <<Integer(1), Blanks, Alt(DoseWords, 2)>>
    IN  <<[shape |-> "bracketed", pat |-> PatternBracketed, anchored |-> FALSE],
          [shape |-> "drained", pat |-> PatternDrained, anchored |-> FALSE],
          [shape |-> "pack", pat |-> PatternPack, anchored |-> FALSE],
          [shape |-> "bonus", pat |-> PatternBonus, anchored |-> FALSE],
          [shape |-> "pack_units", pat |-> PatternPackUnits, anchored |-> FALSE],
          [shape |-> "units", pat |-> PatternUnits, anchored |-> TRUE],
          [shape |-> "weight", pat |-> PatternWeight, anchored |-> FALSE],
          [shape |-> "pack_doses", pat |-> PatternPackDoses, anchored |-> FALSE],
          [shape |-> "doses", pat |-> PatternDoses, anchored |-> FALSE]>>

\* The processor of a shape on the groups m of its match.
processor(shape, m) ==
    LET \* The ZeroDivisionError of a division by int(m[3]) = 0.
        QuantityRaised ==
            [raised |-> TRUE, quantity_value |-> Whole(0), quantity_unit |-> "",
             quantity_items |-> 0, quantity_total |-> Whole(0)]
    IN  CASE shape = "bracketed" ->
                LET total == convert_to_base_unit(CapturedFloat(m[1]), m[2])
                    items == Number(m[3])
                IN  IF items = 0 THEN QuantityRaised
                    ELSE QuantityResult(Over(total, items),
                                        standardize_unit(m[2]), items, total)
          [] shape \in {"drained", "weight"} ->
                LET value == convert_to_base_unit(CapturedFloat(m[1]), m[2])
                IN  QuantityResult(value, standardize_unit(m[2]), 1, value)
          [] shape = "pack" ->
                LET value == convert_to_base_unit(CapturedFloat(m[2]), m[3])
                IN  QuantityResult(value, standardize_unit(m[3]), Number(m[1]),
                                   Times(value, Number(m[1])))
          [] shape = "bonus" ->
                QuantityResult(Whole(Number(m[1]) + Number(m[2])), "un", 1,
                               Whole(Number(m[1]) + Number(m[2])))
          [] shape = "pack_units" ->
                QuantityResult(Whole(Number(m[2])), "un", Number(m[1]),
                               Whole(Number(m[1]) * Number(m[2])))
          [] OTHER ->
                QuantityResult(Whole(Number(m[1])), "un", 1, Whole(Number(m[1])))

\* for pattern, processor in patterns: the first shape that matches.
RECURSIVE FirstMatch(_, _)
FirstMatch(str, i) ==
    IF i > Len(patterns) THEN empty_result
    ELSE LET match == Search(patterns[i].pat, patterns[i].anchored, str, 1)
         IN  IF match.ok THEN processor(patterns[i].shape, match.caps)
             ELSE FirstMatch(str, i + 1)

\* A quantity argument: a string, a number (chars is the text Python
\* formats it to) or neither.
QuantityStr(chars) == [kind |-> "str", chars |-> chars]
QuantityNum(chars) == [kind |-> "num", chars |-> chars]
QuantityNone == [kind |-> "other", chars |-> <<>>]

standardize_quantity(quantity_str, secondary_price_unit) ==
    LET text == IF quantity_str.kind # "num" THEN quantity_str.chars
                ELSE IF secondary_price_unit = "KGM"
                     THEN quantity_str.chars \o <<"g">>
                ELSE IF secondary_price_unit = "LTR"
                     THEN quantity_str.chars \o <<"m", "l">>
                ELSE quantity_str.chars \o <<"u", "n">>
    IN  IF quantity_str.kind = "other" \/ text = <<>> THEN empty_result
        ELSE FirstMatch(Strip(RemoveNoise(Strip(LowerString(text)), 1)), 1)

\* The weights, units and counts of the bracketed tokens, and the white
\* space between their parts.
Weights ==
    { <<"1", ",", "0", "7", "5">>,
      <<"1", ".", "5">>,
      <<"2">>,
      <<"1", "2">> }
UnitWords ==
    { <<"g">>,
      <<"g", "r">>,
      <<"k", "g">>,
      <<"m", "l">>,
      <<"l">>,
      <<"l", "t">>,
      <<"c", "l">> }
Counts ==
    { <<"3", "8">>,
      <<"2">>,
      <<"0">> }
Gaps == { <<>>, <<" ">> }

\* "<W> <unit> (<N> un)"
BracketedToken(w, unit, n, gap) ==
    w \o gap \o unit \o gap \o <<"(">> \o n \o gap \o <<"u", "n", ")">>

\* The counts and sizes of the pack tokens.
PackCounts ==
    { <<"1", "2">>,
      <<"2">>,
      <<"0">> }
PackSizes ==
    { <<"1">>,
      <<"1", ".", "5">>,
      <<"0", ",", "5">>,
      <<"3", "3", "0">> }

\* "<N> x <M> <unit>"
PackToken(n, m, unit, gap) == n \o gap \o <<"x">> \o gap \o m \o gap \o unit

QuantityInit ==
    LET \* Tokens of the other shapes, of no shape, and in upper case.
        OtherTokens ==
            { <<"1", "2", " ", "x", " ", "1", " ", "l", "t">>,
              <<"p", "e", "s", "o", " ", "e", "s", "c", "o", "r", "r", "i", "d", "o", " ", "4", "1", " ", "g", "r">>,
              <<"1", "0", "0", " ", "u", "n", " ", "+", " ", "2", "0", " ", "G", "R", "Á", "T", "I", "S">>,
              <<"2", " ", "x", " ", "e", "m", "b", ".", " ", "1", "0", " ", "u", "n">>,
              <<"2", " ", "x", " ", "1", "0", " ", "u", "n">>,
              <<"4", "0", " ", "u", "n">>,
              <<"2", "0", "0", "G">>,
              <<"1", ".", "5", "k", "g">>,
              <<"e", "m", "b", ".", " ", "2", "0", " ", "c", "o", "m", "p", "r", "i", "m", "i", "d", "o", "s">>,
              <<"9", "0", " ", "c", "á", "p", "s", "u", "l", "a", "s">>,
              <<"c", "e", "r", "c", "a", " ", "d", "e", " ", "2", " ", "k", "g">>,
              <<"a", "p", "r", "o", "x", ".", " ", "1", ",", "5", " ", "L">>,
              <<"s", "e", "m", " ", "u", "n">>,
              <<" ">> }
        QuantityInputs ==
            { QuantityStr(BracketedToken(w, unit, n, gap)) :
                w \in Weights, unit \in UnitWords, n \in Counts, gap \in Gaps }
            \cup { QuantityStr(PackToken(n, m, unit, gap)) :
                     n \in PackCounts, m \in PackSizes, unit \in UnitWords,
                     gap \in Gaps }
            \cup { QuantityStr(t) : t \in OtherTokens }
            \cup { QuantityStr(<<>>), QuantityNone,
                   QuantityNum(<<"5", "0", "0">>), QuantityNum(<<"1", ".", "5">>) }
        Hints == {"KGM", "LTR", "UNT"}
    IN  /\ InitProcess
        /\ call \in { [fn |-> "standardize_quantity", state |-> "called",
                       arg |-> q, hint |-> h, result |-> empty_result] :
                      q \in QuantityInputs, h \in Hints }

StandardizeCall ==
    /\ call.fn = "standardize_quantity"
    /\ call.state = "called"
    /\ call' = [call EXCEPT !.state = "returned",
                            !.result = standardize_quantity(call.arg,
                                                            call.hint)]
    /\ UNCHANGED processVars

QuantityNext == StandardizeCall

QuantitySpec == QuantityInit /\ [][QuantityNext]_vars

QuantityReturned ==
    call.fn = "standardize_quantity" /\ call.state = "returned"

\* C20: standardize on "<W> <unit> (<N> un)" with N >= 1 returns items = N,
\* the normalized unit, total = W in base units (with "1,075" read as 1075,
\* as the example of the claim reads it) and value = total / N; on
\* "1,075 gr (38 un)" it returns value 1075/38, unit "g", items 38 and
\* total 1075.
C20_BracketedCountTotals ==
    QuantityReturned =>
        \A w \in Weights, unit \in UnitWords, n \in Counts, gap \in Gaps :
            call.arg = QuantityStr(BracketedToken(w, unit, n, gap))
                /\ Number(n) >= 1 =>
            LET claimed ==
                    IF w = <<"1", ",", "0", "7", "5">> THEN Whole(1075)
                    ELSE IF w = <<"1", ".", "5">> THEN Over(Whole(3), 2)
                    ELSE Whole(Number(w))
                total == convert_to_base_unit(claimed, unit)
            IN  /\ ~call.result.raised
                /\ call.result.quantity_items = Number(n)
                /\ call.result.quantity_unit = standardize_unit(unit)
                /\ call.result.quantity_total = total
                /\ call.result.quantity_value =
                       Over(total, Number(n))

\* C21: standardize on "<N> x <M> <unit>" returns items = N, value = M in
\* the base unit (kg, l and lt a thousandfold, cl tenfold), the normalized
\* unit and total = N x value; on "12 x 1 lt" it returns value 1000, unit
\* "ml", items 12 and total 12000.
C21_PackTotals ==
    QuantityReturned =>
        \A n \in PackCounts, m \in PackSizes, unit \in UnitWords, gap \in Gaps :
            call.arg = QuantityStr(PackToken(n, m, unit, gap)) =>
            LET size == IF m = <<"1", ".", "5">> THEN Over(Whole(3), 2)
                        ELSE IF m = <<"0", ",", "5">> THEN Over(Whole(1), 2)
                        ELSE Whole(Number(m))
                factor == IF unit \in {<<"k", "g">>, <<"l">>, <<"l", "t">>}
                          THEN 1000
                          ELSE IF unit = <<"c", "l">> THEN 10 ELSE 1
                value == Times(size, factor)
            IN  /\ ~call.result.raised
                /\ call.result.quantity_items = Number(n)
                /\ call.result.quantity_value = value
                /\ call.result.quantity_unit =
                       (IF unit \in {<<"g">>, <<"g", "r">>, <<"k", "g">>}
                        THEN "g" ELSE "ml")
                /\ call.result.quantity_total =
                       Times(value, Number(n))

C21_Witness ==
    /\ QuantityReturned
    /\ call.arg = QuantityStr(<<"1", "2", " ", "x", " ", "1", " ", "l", "t">>)
    /\ call.result = QuantityResult(Whole(1000), "ml", 12, Whole(12000))

\* C22: every result of standardize has
\* quantity_total = quantity_items x quantity_value.
C22_TotalIsItemsTimesValue ==
    QuantityReturned /\ ~call.result.raised =>
        call.result.quantity_total =
            Times(call.result.quantity_value, call.result.quantity_items)

\* C23: standardize raises for no input, and when no shape matcher matches
\* the token it returns value 1, unit "un", items 1, total 1.
C23_NeverRaisesDefaultWhenUnmatched ==
    QuantityReturned =>
        /\ ~call.result.raised
        /\ call.arg.kind = "str" =>
              LET str == Strip(RemoveNoise(Strip(LowerString(call.arg.chars)),
                                           1))
              IN  (\A i \in 1..Len(patterns) :
                      ~Search(patterns[i].pat, patterns[i].anchored, str,
                              1).ok)
                  => call.result = empty_result

\* C24: every result of standardize has its unit among "g", "ml", "un" and
\* at least one item.
C24_UnitAndItemsInRange ==
    QuantityReturned /\ ~call.result.raised =>
        /\ call.result.quantity_unit \in {"g", "ml", "un"}
        /\ call.result.quantity_items >= 1

(***************************************************************************)
(* CategoryNormalizer.  A label is a string (a sequence of characters) or  *)
(* None.  A mapping file holds three JSON objects, each a sequence of      *)
(* entries in the order of the file: category_mapping and                  *)
(* sub_category_mapping (canonical name, aliases) and                      *)
(* category_subcategory_relationships (category, valid sub-categories).    *)
(***************************************************************************)
Label(chars) == [kind |-> "str", chars |-> chars]
None == [kind |-> "none", chars |-> <<>>]

\* not value: None and the empty string.
Falsy(label) == label.kind = "none" \/ label.chars = <<>>

\* a in b, for strings.
Contains(a, b) ==
    \E i \in 0..(Len(b) - Len(a)) : SubSeq(b, i + 1, i + Len(a)) = a

\* The mappings of a normalizer whose file could not be read or parsed.
EmptyMappings ==
    [category_mapping |-> <<>>, sub_category_mapping |-> <<>>,
     category_subcategory_relationships |-> <<>>,
     reverse_category_mapping |-> <<>>]

\* CategoryNormalizer._load_mappings on a mapping file: "missing", "corrupt",
\* or the data of a well-formed file.  reverse[old.lower()] = new on a dict
\* kept as a sequence of entries: a key that is there keeps its place and
\* takes the new value.
load_mappings(mapping_file) ==
    LET DictSet(dict, key, value) ==
            IF \E i \in 1..Len(dict) : dict[i].key = key
            THEN [i \in 1..Len(dict) |->
                    IF dict[i].key = key THEN [key |-> key, value |-> value]
                    ELSE dict[i]]
            ELSE Append(dict, [key |-> key, value |-> value])
        RECURSIVE ReverseFrom(_, _, _, _)
        ReverseFrom(mapping, i, j, reverse) ==
            IF i > Len(mapping) THEN reverse
            ELSE IF j > Len(mapping[i].aliases)
            THEN ReverseFrom(mapping, i + 1, 1, reverse)
            ELSE ReverseFrom(mapping, i, j + 1,
                             DictSet(reverse,
                                     LowerString(mapping[i].aliases[j]),
                                     mapping[i].canonical))
    IN  IF mapping_file.state # "loaded" THEN EmptyMappings
        ELSE [category_mapping |-> mapping_file.category_mapping,
              sub_category_mapping |-> mapping_file.sub_category_mapping,
              category_subcategory_relationships |->
                  mapping_file.category_subcategory_relationships,
              reverse_category_mapping |->
                  ReverseFrom(mapping_file.category_mapping, 1, 1, <<>>)]

\* The partial match is the first entry of the reverse mapping whose
\* pattern is in the category or holds it.
get_normalized_category(self, old_category) ==
    IF Falsy(old_category) THEN None
    ELSE LET reverse == self.reverse_category_mapping
             lowered == LowerString(old_category.chars)
             direct == { i \in 1..Len(reverse) : reverse[i].key = lowered }
             partial ==
                 { i \in 1..Len(reverse) :
                     \/ Contains(reverse[i].key, lowered)
                     \/ Contains(lowered, reverse[i].key) }
         IN  IF direct # {}
             THEN Label(reverse[CHOOSE i \in direct : TRUE].value)
             ELSE IF partial # {}
             THEN Label(reverse[CHOOSE i \in partial :
                                    \A k \in partial : i <= k].value)
             ELSE old_category

is_subcategory_match(subcategory1, subcategory2) ==
    IF subcategory1 = <<>> \/ subcategory2 = <<>> THEN FALSE
    ELSE LET s1 == LowerString(subcategory1)
             s2 == LowerString(subcategory2)
         IN  s1 = s2 \/ Contains(s1, s2) \/ Contains(s2, s1)

\* dict.get(key, []) on a sequence of entries (canonical, aliases) or
\* (category, subs).
AliasesOf(mapping, canonical) ==
    LET at == { i \in 1..Len(mapping) : mapping[i].canonical = canonical }
    IN  IF at = {} THEN <<>> ELSE mapping[CHOOSE i \in at : TRUE].aliases
ValidSubcategories(relationships, category) ==
    LET at == { i \in 1..Len(relationships) :
                  relationships[i].category = category }
    IN  IF at = {} THEN <<>> ELSE relationships[CHOOSE i \in at : TRUE].subs

InSeq(x, seq) == \E i \in 1..Len(seq) : seq[i] = x

\* The resolution with a second search that takes any canonical sub-category.
get_normalized_subcategory_unguarded(self, old_subcategory, normalized_category) ==
    IF Falsy(old_subcategory) \/ Falsy(normalized_category)
    THEN (IF Falsy(old_subcategory) THEN None ELSE old_subcategory)
    ELSE LET valid == ValidSubcategories(
                          self.category_subcategory_relationships,
                          normalized_category.chars)
             Matches(aliases) ==
                 \E k \in 1..Len(aliases) :
                     is_subcategory_match(old_subcategory.chars, aliases[k])
             mapping == self.sub_category_mapping
             first == FirstTrue([i \in 1..Len(valid) |->
                                    Matches(AliasesOf(mapping, valid[i]))], 1)
             second == FirstTrue([i \in 1..Len(mapping) |->
                                     Matches(mapping[i].aliases)], 1)
         IN  IF first # 0 THEN Label(valid[first])
             ELSE IF second # 0 THEN Label(mapping[second].canonical)
             ELSE old_subcategory

get_normalized_subcategory(self, old_subcategory, normalized_category) ==
    IF Falsy(old_subcategory) \/ Falsy(normalized_category)
    THEN (IF Falsy(old_subcategory) THEN None ELSE old_subcategory)
    ELSE LET valid == ValidSubcategories(
                          self.category_subcategory_relationships,
                          normalized_category.chars)
             Matches(aliases) ==
                 \E k \in 1..Len(aliases) :
                     is_subcategory_match(old_subcategory.chars, aliases[k])
             mapping == self.sub_category_mapping
             first == FirstTrue([i \in 1..Len(valid) |->
                                    Matches(AliasesOf(mapping, valid[i]))], 1)
             second == FirstTrue([i \in 1..Len(mapping) |->
                                     /\ InSeq(mapping[i].canonical, valid)
                                     /\ Matches(mapping[i].aliases)], 1)
         IN  IF first # 0 THEN Label(valid[first])
             ELSE IF second # 0 THEN Label(mapping[second].canonical)
             ELSE old_subcategory

\* CategoryNormalizer.normalize_categories on the pair of a row.
normalize_categories(self, pair) ==
    LET normalized_cat == get_normalized_category(self, pair.category)
    IN  [category |-> normalized_cat,
         sub_category |-> get_normalized_subcategory(self, pair.sub_category,
                                                     normalized_cat)]

\* df.groupby(['category', 'sub_category']): the pairs of the rows that hold
\* both values, sorted as Python sorts strings, by ord(ch).
Grouped(df) ==
    LET Ord(ch) ==
            CASE ch = "A" -> 65 [] ch = "B" -> 66
              [] ch = "a" -> 97 [] ch = "b" -> 98
        RECURSIVE StrLess(_, _)
        StrLess(a, b) ==
            IF b = <<>> THEN FALSE
            ELSE IF a = <<>> THEN TRUE
            ELSE IF Head(a) # Head(b) THEN Ord(Head(a)) < Ord(Head(b))
            ELSE StrLess(Tail(a), Tail(b))
        PairLess(p, q) ==
            \/ StrLess(p.category, q.category)
            \/ /\ p.category = q.category
               /\ StrLess(p.sub_category, q.sub_category)
        RECURSIVE SortedPairs(_)
        SortedPairs(pairs) ==
            IF pairs = {} THEN <<>>
            ELSE LET least == CHOOSE p \in pairs :
                                  \A q \in pairs \ {p} : PairLess(p, q)
                 IN  <<least>> \o SortedPairs(pairs \ {least})
    IN  SortedPairs({ [category |-> df[i].category.chars,
                       sub_category |-> df[i].sub_category.chars] :
                      i \in { j \in 1..Len(df) :
                                /\ df[j].category.kind = "str"
                                /\ df[j].sub_category.kind = "str" } })

\* df.progress_apply(self.normalize_categories, axis=1)
NormalizeRows(self, df) ==
    [i \in 1..Len(df) |->
        LET normalized == normalize_categories(self, df[i])
        IN  [df[i] EXCEPT !.category = normalized.category,
                          !.sub_category = normalized.sub_category]]

\* The report file that _verify_category_consistency_from_csv leaves for the
\* normalized rows: a group is inconsistent when its category is a key of
\* the relation and its sub-category is not listed there.  The rows come
\* from the columns that close_spider selects, which hold primaryPrice and
\* no primary_price: the line of the first product of the first
\* inconsistency raises KeyError, which ends the writing after the heading
\* of that inconsistency.
Report(self, df) ==
    LET relationships == self.category_subcategory_relationships
        Listed(p) ==
            InSeq(p.sub_category,
                  ValidSubcategories(relationships, p.category))
        IsKey(p) ==
            \E i \in 1..Len(relationships) :
                relationships[i].category = p.category
        inconsistencies ==
            SelectSeq(Grouped(df), LAMBDA p : IsKey(p) /\ ~Listed(p))
    IN  IF inconsistencies = <<>>
        THEN [consistent |-> TRUE, entries |-> <<>>, raised |-> FALSE]
        ELSE [consistent |-> FALSE, entries |-> <<inconsistencies[1]>>,
              raised |-> TRUE]

\* The mapping files of the model: JSON objects name -> aliases with at
\* most one alias per name, in every order of the keys, and relations
\* category -> valid sub-categories; and the files that cannot be loaded.
MappingFiles ==
    LET Names == {<<"A", "b">>, <<"B">>}
        Mappings(aliases) ==
            LET entries == { [canonical |-> n, aliases |-> l] :
                               n \in Names,
                               l \in {<<>>} \cup { <<a>> : a \in aliases } }
            IN  {<<>>} \cup { <<e>> : e \in entries }
                  \cup { m \in { <<e, f>> : e \in entries, f \in entries } :
                            m[1].canonical # m[2].canonical }
        SubLists == {<<<<"A", "b">>>>, <<<<"A", "b">>, <<"B">>>>}
        Relationships ==
            LET entries == { [category |-> n, subs |-> l] :
                               n \in Names, l \in SubLists }
            IN  {<<>>} \cup { <<e>> : e \in entries }
                  \cup { <<[category |-> <<"A", "b">>, subs |-> k],
                           [category |-> <<"B">>, subs |-> l]>> :
                         k \in SubLists, l \in SubLists }
    IN  { [state |-> "loaded", category_mapping |-> c,
           sub_category_mapping |-> s,
           category_subcategory_relationships |-> r] :
          c \in Mappings({<<"a">>, <<"b">>}), s \in Mappings({<<"a">>}),
          r \in Relationships }
        \cup { [state |-> st, category_mapping |-> <<>>,
                sub_category_mapping |-> <<>>,
                category_subcategory_relationships |-> <<>>] :
               st \in {"missing", "corrupt"} }

\* The record sets of the model: one row of any category and sub-category,
\* or two rows.
DataFrames ==
    LET Categories ==
            {None, Label(<<>>), Label(<<"a">>), Label(<<"b">>),
             Label(<<"A", "b">>), Label(<<"B">>)}
        SubCategories ==
            {None, Label(<<>>), Label(<<"a">>), Label(<<"A", "b">>),
             Label(<<"B">>)}
        FirstRows ==
            {[id |-> 1, category |-> Label(<<"B">>),
              sub_category |-> Label(<<"a">>)],
             [id |-> 1, category |-> Label(<<"A", "b">>),
              sub_category |-> Label(<<"a">>)]}
        SecondRows ==
            {[id |-> 2, category |-> Label(<<"B">>),
              sub_category |-> Label(<<"a">>)],
             [id |-> 2, category |-> Label(<<"A", "b">>),
              sub_category |-> Label(<<"B">>)]}
    IN  { <<[id |-> 1, category |-> c, sub_category |-> s]>> :
          c \in Categories, s \in SubCategories }
        \cup { <<r, q>> : r \in FirstRows, q \in SecondRows }

NormalizerInit ==
    /\ InitProcess
    /\ call \in { [fn |-> "CategoryNormalizer", state |-> "new",
                   mapping_file |-> m, self |-> EmptyMappings, raised |-> FALSE,
                   given |-> d, df |-> d, once |-> d, times |-> 0,
                   report |-> [consistent |-> FALSE, entries |-> <<>>,
                               raised |-> FALSE]] :
                  m \in MappingFiles, d \in DataFrames }

\* CategoryNormalizer.__init__
Construct ==
    /\ call.fn = "CategoryNormalizer"
    /\ call.state = "new"
    /\ call' = [call EXCEPT !.state = "constructed",
                            !.self = load_mappings(call.mapping_file)]
    /\ UNCHANGED processVars

\* normalize_categories applied to every row, and then to its own results.
Normalize ==
    /\ call.fn = "CategoryNormalizer"
    /\ call.state \in {"constructed", "normalized"}
    /\ call.times < 2
    /\ call' = [call EXCEPT !.state = "normalized",
                            !.times = call.times + 1,
                            !.once = call.df,
                            !.df = NormalizeRows(call.self, call.df)]
    /\ UNCHANGED processVars

\* CategoryNormalizer._verify_category_consistency_from_csv on the rows.
Verify ==
    /\ call.fn = "CategoryNormalizer"
    /\ call.state = "constructed"
    /\ LET df == NormalizeRows(call.self, call.df)
       IN  call' = [call EXCEPT !.state = "verified",
                                !.df = df,
                                !.report = Report(call.self, df)]
    /\ UNCHANGED processVars

NormalizerNext == Construct \/ Normalize \/ Verify

NormalizerSpec == NormalizerInit /\ [][NormalizerNext]_vars

\* C25: normalizing is idempotent: for every loaded mapping and every pair,
\* normalizing the normalized pair returns it unchanged.
C25_NormalizeIdempotent ==
    call.fn = "CategoryNormalizer" /\ call.state = "normalized"
        /\ call.times = 2 =>
            call.df = call.once

NormalizedOnce ==
    call.fn = "CategoryNormalizer" /\ call.state = "normalized"
        /\ call.times = 1

\* The sub-category matches an alias of one of the names.
MatchesAliasOf(self, sub, names) ==
    \E i \in 1..Len(names) :
        LET aliases == AliasesOf(self.sub_category_mapping, names[i])
        IN  \E k \in 1..Len(aliases) : is_subcategory_match(sub, aliases[k])

\* Row i is one whose sub-category resolution reaches the fallback: both
\* values are there and no alias of a valid sub-category matches.
ReachesFallback(i) ==
    /\ ~Falsy(call.once[i].sub_category)
    /\ ~Falsy(call.df[i].category)
    /\ ~MatchesAliasOf(call.self, call.once[i].sub_category.chars,
                       ValidSubcategories(
                           call.self.category_subcategory_relationships,
                           call.df[i].category.chars))

\* The canonical sub-categories, in the order of the file, with an alias
\* that matches the sub-category of row i.
MatchingCanonicals(i) ==
    LET mapping == call.self.sub_category_mapping
    IN  SelectSeq([k \in 1..Len(mapping) |-> mapping[k].canonical],
                  LAMBDA name :
                      MatchesAliasOf(call.self, call.once[i].sub_category.chars,
                                     <<name>>))

\* C26 (as stated): when no alias of a valid sub-category matches, the
\* resolution returns the first canonical sub-category, valid or not, with
\* an alias that matches, and the original value only when there is none.
C26_FallbackSearchesAll ==
    NormalizedOnce =>
        \A i \in 1..Len(call.df) :
            ReachesFallback(i) =>
                call.df[i].sub_category =
                    IF MatchingCanonicals(i) # <<>>
                    THEN Label(MatchingCanonicals(i)[1])
                    ELSE call.once[i].sub_category

\* C26 (amended): when no alias of a valid sub-category matches, the
\* original sub-category is passed through unchanged, also when an alias of
\* another canonical sub-category matches.
C26_FallbackPassesThrough ==
    NormalizedOnce =>
        \A i \in 1..Len(call.df) :
            ReachesFallback(i) =>
                call.df[i].sub_category = call.once[i].sub_category

C26_Witness ==
    /\ NormalizedOnce
    /\ \E i \in 1..Len(call.df) :
        /\ ReachesFallback(i)
        /\ MatchingCanonicals(i) # <<>>
        /\ call.df[i].sub_category = call.once[i].sub_category

Verified == call.fn = "CategoryNormalizer" /\ call.state = "verified"

\* C27: verification is read-only: the records it returns hold the category
\* and the sub_category of the records it was given.
C27_VerificationReadOnly ==
    Verified =>
        \A i \in 1..Len(call.given) :
            /\ call.df[i].category = call.given[i].category
            /\ call.df[i].sub_category = call.given[i].sub_category

\* C28: verification writes a report entry for every group of the record
\* set whose pair is not listed in the relation, also when its category is
\* no key of the relation.
C28_EveryUnlistedGroupReported ==
    Verified =>
        \A p \in { Grouped(call.df)[i] : i \in 1..Len(Grouped(call.df)) } :
            ~InSeq(p.sub_category,
                   ValidSubcategories(
                       call.self.category_subcategory_relationships,
                       p.category))
                => InSeq(p, call.report.entries)

\* C29: with a missing or corrupt mapping file the construction does not
\* raise, every mapping is empty, normalizing returns every pair unchanged,
\* empty values too, and verification reports no inconsistency.
C29_LoadFailureDegrades ==
    call.fn = "CategoryNormalizer" /\ call.mapping_file.state # "loaded" =>
        /\ call.state # "new" => ~call.raised /\ call.self = EmptyMappings
        /\ NormalizedOnce => call.df = call.once
        /\ Verified => call.report.consistent /\ call.report.entries = <<>>

(***************************************************************************)
(* The post-processing pass of PostDatabaseProcessorPipeline.close_spider  *)
(* on the stored products, and the flush of SaveToDatabase.close_spider    *)
(* that Scrapy runs after it.  Product names hold no digit and none of the *)
(* "dúzia" phrases, so of the quantity matchers of extract_info only the   *)
(* trailing unit and the bare unit can match; no label of the model is one *)
(* of the four pairs that _fix_specific_issues_from_df rewrites.           *)
(***************************************************************************)
\* AuchanQuantityBrandExtractor.special_cases, in the order of the dict.
special_cases ==
    <<[case |-> <<"u", "m", "a", " ", "d", "ú", "z", "i", "a">>,
       value |-> <<"1", "2", " ", "u", "n">>],
      [case |-> <<"d", "u", "a", "s", " ", "d", "ú", "z", "i", "a", "s">>,
       value |-> <<"2", "4", " ", "u", "n">>],
      [case |-> <<"t", "r", "ê", "s", " ", "d", "ú", "z", "i", "a", "s">>,
       value |-> <<"3", "6", " ", "u", "n">>],
      [case |-> <<"m", "e", "i", "a", " ", "d", "ú", "z", "i", "a">>,
       value |-> <<"6", " ", "u", "n">>]>>

\* The expressions of AuchanQuantityBrandExtractor.patterns that
\* extract_info searches, by their keys.
extractor_patterns(pattern_key) ==
    LET Units == <<<<"g">>, <<"g", "r">>, <<"k", "g">>, <<"m", "l">>, <<"l">>,
                   <<"c", "l">>>>
        Blank == Rep({" "}, 1, 1, 0)
        \* (\d+(?:[.,]\d+)?) as group g
        Num(g) ==
            <<Rep(DecimalDigit, 1, Many, g),
              Choice(<<<<Rep({".", ","}, 1, 1, g),
                         Rep(DecimalDigit, 1, Many, g)>>,
                       <<>>>>)>>
    IN  CASE pattern_key = "weight_volume" ->
                <<Choice(<<<<Anchor("^")>>, <<Blank>>>>)>> \o Num(1)
                    \o <<Blanks, Alt(Units, 2),
                         Choice(<<<<Blank>>, <<Anchor("$")>>>>)>>
          [] pattern_key = "multi_pack" ->
                <<Integer(1), Blanks, Lit(<<"x">>), Blanks>> \o Num(2)
                    \o <<Blanks, Alt(Units \o <<<<"u", "n">>>>, 3)>>
          [] pattern_key = "units" ->
                <<Integer(1), Blanks,
                  Alt(<<<<"u", "n", "i", "d", "a", "d", "e", "s">>,
                        <<"u", "n", "d">>, <<"u", "n">>, <<"p", "a", "r">>,
                        <<"d", "o", "s", "e", "s">>,
                        <<"d", "ú", "z", "i", "a">>,
                        <<"d", "ú", "z", "i", "a", "s">>,
                        <<"s", "a", "q", "u", "e", "t", "a", "s">>>>, 2)>>
          [] pattern_key = "pack_with_net_weight" ->
                <<Integer(1), Blanks, Lit(<<"x">>), Blanks>> \o Num(2)
                    \o <<Blanks, Alt(Units, 3), Blanks, Lit(<<"(">>)>>
                    \o Num(4) \o <<Blanks, Alt(Units, 5), Lit(<<")">>)>>
          [] pattern_key = "pack_units" ->
                <<Integer(1), Blanks, Lit(<<"x">>), Blanks, Integer(2), Blanks,
                  Lit(<<"u", "n">>)>>
          [] OTHER -> \* unit_only
                <<Blank, Alt(<<<<"k", "g">>, <<"g">>, <<"g", "r">>, <<"m", "l">>,
                               <<"l">>, <<"c", "l">>>>, 1),
                  Blanks, Anchor("$")>>

\* The quantity that extract_info assembles from the groups of a match.
extracted_quantity(pattern_key, groups) ==
    CASE pattern_key = "pack_units" ->
            groups[1] \o <<"x">> \o groups[2] \o <<"u", "n">>
      [] pattern_key = "pack_with_net_weight" ->
            groups[1] \o <<"x">> \o groups[2] \o groups[3] \o <<"(">>
                \o groups[4] \o groups[5] \o <<")">>
      [] pattern_key = "multi_pack" ->
            groups[1] \o <<"x">> \o groups[2] \o groups[3]
      [] pattern_key = "weight_volume" -> groups[1] \o groups[2]
      [] pattern_key = "units" -> groups[1] \o <<"u", "n">>
      [] OTHER -> <<"1">> \o groups[1]

\* The keys in the order of the loop of extract_info.
pattern_keys ==
    <<"pack_units", "pack_with_net_weight", "multi_pack", "weight_volume",
      "units", "unit_only">>

\* The extraction tried in the order keys: the special cases, the first
\* key whose expression is found, the first unit that follows a blank; and
\* the brand: the first brand of the list found as a word, none for a
\* book, "Auchan" otherwise.
extract_in_order(name, keys) ==
    LET Brands == <<<<"m", "i", "m", "o", "s", "a">>>>
        Units == <<<<"k", "g">>, <<"g">>, <<"g", "r">>, <<"m", "l">>, <<"l">>,
                   <<"c", "l">>>>
        product_name == LowerString(name)
        special == FirstTrue([i \in 1..Len(special_cases) |->
                                 Contains(special_cases[i].case,
                                          product_name)], 1)
        matches == [i \in 1..Len(keys) |->
                       Search(extractor_patterns(keys[i]), FALSE,
                              product_name, 1)]
        match == FirstTrue([i \in 1..Len(keys) |-> matches[i].ok], 1)
        bare == FirstTrue([u \in 1..Len(Units) |->
                              Contains(<<" ">> \o Units[u], product_name)], 1)
        matched_brand ==
            FirstTrue([b \in 1..Len(Brands) |->
                          Search(<<Boundary, Lit(LowerString(Brands[b])),
                                   Boundary>>, FALSE, product_name, 1).ok], 1)
    IN  [quantity |->
             IF special # 0 THEN QuantityStr(special_cases[special].value)
             ELSE IF match # 0
             THEN QuantityStr(extracted_quantity(keys[match],
                                                 matches[match].caps))
             ELSE IF bare # 0 THEN QuantityStr(<<"1">> \o Units[bare])
             ELSE QuantityNone,
         brand |->
             IF matched_brand # 0 THEN Label(Brands[matched_brand])
             ELSE IF Contains(<<"l", "i", "v", "r", "o">>, product_name)
             THEN None
             ELSE Label(<<"A", "u", "c", "h", "a", "n">>)]

\* An extraction that tries the expressions in the order in which
\* self.patterns lists them.
extract_info_in_dict_order(name) ==
    extract_in_order(name, <<"weight_volume", "multi_pack", "units",
                             "pack_with_net_weight", "pack_units",
                             "unit_only">>)

\* AuchanQuantityBrandExtractor.extract_info.
extract_info(name) == extract_in_order(name, pattern_keys)

\* PostDatabaseProcessorPipeline._update_database_from_df: every row
\* rewrites the product of its id, and a row without a brand deletes it.
RECURSIVE update_database_from_df(_, _)
update_database_from_df(storage, df) ==
    IF df = <<>> THEN storage
    ELSE LET row == Head(df)
             rewritten == [i \in 1..Len(storage) |->
                              IF storage[i].id = row.id THEN row
                              ELSE storage[i]]
         IN  update_database_from_df(
                 IF Falsy(row.brand)
                 THEN SelectSeq(rewritten, LAMBDA p : p.id # row.id)
                 ELSE rewritten,
                 Tail(df))

\* The extraction that close_spider applies to the rows of store 3: the
\* quantity and the brand are taken from the name.
ExtractRows(df) ==
    [i \in 1..Len(df) |->
        IF df[i].storeId = 3
        THEN [df[i] EXCEPT !.quantity = extract_info(df[i].name).quantity,
                           !.brand = extract_info(df[i].name).brand]
        ELSE df[i]]

\* df.progress_apply(self.apply_standardization, axis=1)
apply_standardization(df) ==
    [i \in 1..Len(df) |->
        [df[i] EXCEPT !.standard =
            standardize_quantity(df[i].quantity, df[i].secondaryPriceUnit)]]

\* CategoryNormalizer.post_process_categories: the rows without a category
\* are dropped and the others normalized.
post_process_categories(self, df) ==
    NormalizeRows(self, SelectSeq(df, LAMBDA row : row.category.kind # "none"))

\* The pass of close_spider over the stored products: the extraction on
\* the rows of store 3, apply_standardization on every row, the
\* verification (which normalizes), post_process_categories, the second
\* verification and the update.  An exception of the standardization ends
\* the pass before the update.
post_processing(self, storage) ==
    LET standardized == apply_standardization(ExtractRows(storage))
    IN  IF \E i \in 1..Len(standardized) : standardized[i].standard.raised
        THEN [raised |-> TRUE, storage |-> storage]
        ELSE [raised |-> FALSE,
              storage |->
                  update_database_from_df(storage,
                      NormalizeRows(self,
                          post_process_categories(self,
                              NormalizeRows(self, standardized))))]

\* The products of the model, with the quantity columns of a product that
\* was never standardized.
Products(id) ==
    { [id |-> id, storeId |-> st, name |-> n, brand |-> b, category |-> c,
       sub_category |-> None, quantity |-> q, secondaryPriceUnit |-> "KGM",
       standard |-> QuantityResult(Whole(0), "", 0, Whole(0))] :
      st \in {1, 3},
      n \in {<<"l", "i", "v", "r", "o">>, <<"m", "i", "m", "o", "s", "a">>, <<"m", "i", "m", "o", "s", "a", "s">>, <<"p", "a", "o">>, <<"p", "a", "o", " ", "l">>},
      b \in {None, Label(<<>>), Label(<<"m", "i", "m", "o", "s", "a">>)},
      c \in {Label(<<>>), Label(<<"a">>), Label(<<"B">>)},
      q \in {QuantityNone, QuantityStr(<<"1", " ", "k", "g">>), QuantityStr(<<"2", "g", "(", "0", "u", "n", ")">>)} }

\* One or two stored products, at most one item still buffered in
\* SaveToDatabase.items_batch, and a mapping file that is missing or maps
\* "a" to "B".
PostPassInit ==
    LET SecondProducts ==
            { p \in Products(2) :
                /\ p.category = Label(<<"a">>)
                /\ p.quantity = QuantityNone
                /\ p.storeId = 3
                /\ p.name \in {<<"l", "i", "v", "r", "o">>, <<"p", "a", "o">>}
                /\ p.brand # Label(<<>>) }
        FirstOfTwo ==
            { p \in Products(1) :
                /\ p.quantity = QuantityNone
                /\ p.category # Label(<<"B">>) }
        BufferedItems ==
            { p \in Products(0) :
                /\ p.category = Label(<<"a">>)
                /\ p.quantity = QuantityNone
                /\ p.name = <<"p", "a", "o">>
                /\ \/ p.storeId = 3 /\ p.brand = None
                   \/ p.storeId = 1 /\ p.brand = Label(<<"m", "i", "m", "o", "s", "a">>) }
        PassMappingFiles ==
            { m \in MappingFiles :
                \/ m.state = "missing"
                \/ /\ m.state = "loaded"
                   /\ m.category_mapping =
                          <<[canonical |-> <<"B">>, aliases |-> <<<<"a">>>>]>>
                   /\ m.sub_category_mapping = <<>>
                   /\ m.category_subcategory_relationships = <<>> }
    IN  /\ InitProcess
        /\ call \in { [fn |-> "close_spider", state |-> "closing",
                       self |-> load_mappings(m), storage |-> st,
                       items_batch |-> b] :
                      m \in PassMappingFiles,
                      st \in { <<p>> : p \in Products(1) }
                             \cup { <<p, q>> : p \in FirstOfTwo,
                                               q \in SecondProducts },
                      b \in {<<>>} \cup { <<i>> : i \in BufferedItems } }

\* PostDatabaseProcessorPipeline.close_spider when scraping is complete.
PostProcess ==
    /\ call.fn = "close_spider"
    /\ call.state = "closing"
    /\ LET pass == post_processing(call.self, call.storage)
       IN  call' = [call EXCEPT
                       !.state = IF pass.raised THEN "post_failed"
                                 ELSE "post_done",
                       !.storage = pass.storage]
    /\ UNCHANGED processVars

\* SaveToDatabase.close_spider, which closes after the post-processing
\* pipeline: the buffered items are committed with the next ids.
PersisterClose ==
    /\ call.fn = "close_spider"
    /\ call.state \in {"post_done", "post_failed"}
    /\ call' = [call EXCEPT
                   !.state = IF call.state = "post_done" THEN "closed"
                             ELSE "closed_failed",
                   !.items_batch = <<>>,
                   !.storage = call.storage \o
                       [i \in 1..Len(call.items_batch) |->
                           [call.items_batch[i] EXCEPT !.id = 2 + i]]]
    /\ UNCHANGED processVars

PostPassNext == PostProcess \/ PersisterClose

PostPassSpec == PostPassInit /\ [][PostPassNext]_vars

\* C30: after the update pass has run to completion, storage holds no
\* product whose brand is null or empty.
C30_NoProductWithoutBrand ==
    call.fn = "close_spider" /\ call.state \in {"post_done", "closed"} =>
        \A i \in 1..Len(call.storage) : ~Falsy(call.storage[i].brand)

(***************************************************************************)
(* Progress.load_progress_file and its callers.  The progress file exists  *)
(* or not; a record read from it is [kind |-> "dict"], and a call that     *)
(* falls off the end of the function returns Python's None.                *)
(***************************************************************************)

\* The value json.load returns for the record on disk.
Dict(record) == [kind |-> "dict", record |-> record]

\* Progress.load_progress_file: the record on disk when the file exists;
\* otherwise create_progress_file writes the template and the function
\* ends without a return statement.
load_progress_file(exists, disk) ==
    IF exists
    THEN [result |-> Dict(disk), exists |-> TRUE, disk |-> disk]
    ELSE [result |-> [kind |-> "none"], exists |-> TRUE,
          disk |-> progress_file_default]

\* The progress files of the model: none, or a record that differs from
\* the template in its database, start time, item count and the counts of
\* one source.
ProgressInit ==
    LET Records ==
            { [progress_file_default EXCEPT
                  !.database_url = u, !.scraper_init_time = t,
                  !.scraped_items = n,
                  !.total_categories["continente"] = total,
                  !.scraped_categories["continente"] = scraped] :
              u \in {"", "db"}, t \in {"", "t"}, n \in 0..MaxItems,
              total \in 0..2, scraped \in 0..2 }
    IN  /\ InitProcess
        /\ call \in { [fn |-> "load_progress_file", state |-> "new",
                       exists |-> TRUE, disk |-> d,
                       progress |-> [kind |-> "none"]] : d \in Records }
                    \cup
                    { [fn |-> "load_progress_file", state |-> "new",
                       exists |-> FALSE, disk |-> progress_file_default,
                       progress |-> [kind |-> "none"]] }

\* self.progress = Progress().load_progress_file(), the first statement of
\* every spider's __init__ and of SaveToDatabase.__init__.
LoadProgressFile ==
    /\ call.fn = "load_progress_file"
    /\ call.state = "new"
    /\ LET load == load_progress_file(call.exists, call.disk)
       IN  call' = [call EXCEPT !.state = "loaded",
                                !.exists = load.exists,
                                !.disk = load.disk,
                                !.progress = load.result]
    /\ UNCHANGED processVars

\* SaveToDatabase.get_database_url, which follows the load in
\* SaveToDatabase.__init__: it loads again and saves the record with a new
\* database when the record names none.
GetDatabaseUrlCall ==
    /\ call.fn = "load_progress_file"
    /\ call.state = "loaded"
    /\ LET load == load_progress_file(call.exists, call.disk)
       IN  IF load.result.kind = "none"
           THEN call' = [call EXCEPT !.state = "type_error",
                                     !.exists = load.exists,
                                     !.disk = load.disk,
                                     !.progress = load.result]
           ELSE call' = [call EXCEPT
                            !.state = "url",
                            !.exists = load.exists,
                            !.disk = GetDatabaseUrl(load.result.record),
                            !.progress =
                                Dict(GetDatabaseUrl(load.result.record))]
    /\ UNCHANGED processVars

ProgressNext == LoadProgressFile \/ GetDatabaseUrlCall

ProgressSpec == ProgressInit /\ [][ProgressNext]_vars

\* C31: load_progress_file returns the checkpoint record in every case: the
\* record of the file when the file exists and the template when it does
\* not (the file then exists); it never returns None.
C31_LoadReturnsRecord ==
    call.fn = "load_progress_file" /\ call.state = "loaded" =>
        /\ call.progress.kind = "dict"
        /\ call.exists
        /\ call.progress.record = call.disk

(***************************************************************************)
(* The secondary-price unit from the spider to the post-pass:              *)
(* ProductScraperPipeline.process_item cleans it, _commit_batch stores it, *)
(* and apply_standardization hands it to standardize_quantity with the     *)
(* quantity of the row.                                                    *)
(***************************************************************************)

\* ProductScraperPipeline._standardize_unit: the standard form of the
\* first list of unit_mapping that holds the unit, and the unit itself when
\* none does.
standardize_price_unit(unit) ==
    LET unit_mapping ==
            <<[standard |-> <<"k", "g">>,
               aliases |-> {<<"k", "g">>, <<"k", "g", "m">>}],
              [standard |-> <<"l", "t">>,
               aliases |-> {<<"l">>, <<"l", "t", "r">>}],
              [standard |-> <<"m", "e", "t", "r", "o">>,
               aliases |-> {<<"m">>, <<"m", "t", "r">>, <<"c", "m">>}],
              [standard |-> <<"d", "o", "s", "e">>,
               aliases |-> {<<"d", "o", "s">>}],
              [standard |-> <<"u", "n">>,
               aliases |-> {<<"r", "o">>, <<"u", "n">>,
                            <<"u", "n", "d", "e", "f", "i", "n", "e", "d">>,
                            <<"u", "n", "k", "n", "o", "w", "n">>,
                            <<"e", "d", "t">>}]>>
        found == FirstTrue([i \in 1..Len(unit_mapping) |->
                               unit \in unit_mapping[i].aliases], 1)
    IN  IF found # 0 THEN unit_mapping[found].standard ELSE unit

\* process_item on a unit field: runs of white space, "/" and the euro sign
\* become one blank, the ends are stripped, the string is lower-cased, and
\* the unit is standardized.
clean_price_unit(unit) ==
    standardize_price_unit(
        LowerString(Strip(Collapse(Replace(unit, "/", " ")))))

\* The row's secondaryPriceUnit as the argument of standardize_quantity,
\* which compares it with 'KGM' and 'LTR' only.
row_get(secondaryPriceUnit) ==
    IF secondaryPriceUnit = <<"K", "G", "M">> THEN "KGM"
    ELSE IF secondaryPriceUnit = <<"L", "T", "R">> THEN "LTR"
    ELSE "other"

\* An item with a numeric quantity and the unit of its secondary price as
\* the sites give it.
UnitInit ==
    LET RawUnits ==
            { <<"K", "G", "M">>, <<"k", "g", "m">>, <<"/", "K", "g">>,
              <<"L", "T", "R">>, <<"/", "L", "t">>, <<"l">>,
              <<"/", "U", "n">>, <<"U", "N">>,
              <<"U", "n", "k", "n", "o", "w", "n">>, <<"c", "m">> }
        Quantities ==
            { <<"5", "0", "0">>, <<"2">>, <<"1", "2">>, <<"0">>,
              <<"1", ".", "5">>, <<"0", ".", "5">>, <<"4", "0">>,
              <<"3", "3", "0">> }
    IN  /\ InitProcess
        /\ call \in { [fn |-> "apply_standardization", state |-> "yielded",
                       quantity |-> QuantityNum(q),
                       secondary_price_unit |-> u,
                       standard |-> empty_result] :
                      q \in Quantities, u \in RawUnits }

\* ProductScraperPipeline.process_item, then the product is stored with
\* the cleaned unit.
CleanUnit ==
    /\ call.fn = "apply_standardization"
    /\ call.state = "yielded"
    /\ call' = [call EXCEPT
                   !.state = "stored",
                   !.secondary_price_unit =
                       clean_price_unit(call.secondary_price_unit)]
    /\ UNCHANGED processVars

\* PostDatabaseProcessorPipeline.apply_standardization on the stored row.
StandardizeStored ==
    /\ call.fn = "apply_standardization"
    /\ call.state = "stored"
    /\ call' = [call EXCEPT
                   !.state = "standardized",
                   !.standard =
                       standardize_quantity(call.quantity,
                           row_get(call.secondary_price_unit))]
    /\ UNCHANGED processVars

UnitNext == CleanUnit \/ StandardizeStored

UnitSpec == UnitInit /\ [][UnitNext]_vars

\* C32: in the post-pass a stored record with a numeric quantity is
\* standardized by its stored secondary-price unit: a mass unit ("kg")
\* gives quantity_unit "g", a volume unit ("lt") gives "ml", and any other
\* unit gives a count of units equal to the numeric quantity.
C32_NumericQuantityFollowsStoredUnit ==
    call.fn = "apply_standardization" /\ call.state = "standardized" =>
        /\ ~call.standard.raised
        /\ IF call.secondary_price_unit = <<"k", "g">>
           THEN call.standard.quantity_unit = "g"
           ELSE IF call.secondary_price_unit = <<"l", "t">>
           THEN call.standard.quantity_unit = "ml"
           ELSE /\ call.standard.quantity_unit = "un"
                /\ call.standard.quantity_items = 1
                /\ call.standard.quantity_value
                       = CapturedFloat(call.quantity.chars)

(***************************************************************************)
(* Completion of a sub-category.                                           *)
(***************************************************************************)

\* The step is the callback that ends sub-category req.sub: for Continente
\* and Auchan the callback of the last product page resuming after its
\* yield, for PingoDoce the callback of the empty page behind it.
LastPageProcessed(req) ==
    /\ pc = "crawl"
    /\ pc' = "crawl"
    /\ IF cur = "pingo_doce"
       THEN req \in pending \ pending' /\ req.page > Pages(req.sub)
       ELSE req \in yielded /\ yielded' = {} /\ req.page = Pages(req.sub)

\* C33: for each of the three sources, when the last page of a
\* sub-category has been processed, the checkpoint then on disk lists the
\* sub-category under its category in the source's completed sub-category
\* map, from the fresh template as well as from a resumed checkpoint.
C33_LastPageMarksSubcategory ==
    [][\A req \in pending \cup yielded :
          LastPageProcessed(req) =>
              req.sub \in CompletedSubs(file', cur, req.cat)]_vars

(***************************************************************************)
(* AuchanQuantityBrandExtractor.extract_info called on product names.      *)
(***************************************************************************)

\* Product names: a quantity of one of the shapes (or a phrase, or none)
\* with or without a word before it and a second quantity behind it.
ExtractInit ==
    LET Prefixes ==
            {
              <<>>, <<"o", "v", "o", "s", " ">> }
        Parts ==
            {
              <<"2", " ", "x", " ", "1", "0", " ", "u", "n">>,
              <<"6", "x", "1", ",", "5", "l">>,
              <<"2", " ", "x", " ", "1", "0", "0", " ", "g", " ", "(", "2", "0", "0", " ", "g", ")">>,
              <<"5", "0", "0", " ", "G">>, <<"1", ".", "5", "k", "g">>,
              <<"1", "2", " ", "u", "n", "i", "d", "a", "d", "e", "s">>,
              <<"3", " ", "d", "o", "s", "e", "s">>,
              <<"a", "r", "r", "o", "z", " ", "K", "G">>,
              <<"m", "e", "i", "a", " ", "d", "ú", "z", "i", "a">>,
              <<"u", "m", "a", " ", "d", "ú", "z", "i", "a">>,
              <<"1", ".", " ", "g">>,
              <<"1", "0", " ", "x", " ", "2", "0", " ", "c", "m">>,
              <<"(", "4", "1", " ", "g", ")">>,
              <<"m", "i", "m", "o", "s", "a">>, <<"l", "i", "v", "r", "o">>,
              <<"2", "x", "3", " ", "u", "n", "d">>, <<"1", " ", "l">>,
              <<"4", " ", "x", " ", "2", " ", "u", "n", " ", "1", " ", "k", "g">> }
        Suffixes ==
            {
              <<>>, <<" ", "4", " ", "u", "n">>, <<" ", "l">>,
              <<" ", "d", "u", "a", "s", " ", "d", "ú", "z", "i", "a", "s">> }
    IN  /\ InitProcess
        /\ call \in { [fn |-> "extract_info", state |-> "called",
                       name |-> a \o b \o c,
                       result |-> [quantity |-> QuantityNone,
                                   brand |-> None]] :
                      a \in Prefixes, b \in Parts, c \in Suffixes }

ExtractCall ==
    /\ call.fn = "extract_info"
    /\ call.state = "called"
    /\ call' = [call EXCEPT !.state = "returned",
                            !.result = extract_info(call.name)]
    /\ UNCHANGED processVars

ExtractNext == ExtractCall

ExtractSpec == ExtractInit /\ [][ExtractNext]_vars

\* The search of a family's expression in the lower-cased name of the call.
FamilyMatch(pattern_key) ==
    Search(extractor_patterns(pattern_key), FALSE, LowerString(call.name), 1)

\* The special-case phrases that the lower-cased name of the call contains.
PhrasesIn ==
    { i \in 1..Len(special_cases) :
        Contains(special_cases[i].case, LowerString(call.name)) }

\* C34: extract_info decides the quantity by first match in a fixed order:
\* a name that contains a phrase of the special-case table gets that
\* phrase's value and no family is tried; otherwise the quantity is that of
\* the first family that matches, in the order pack with unit count, pack
\* with net weight, generic multi-pack, plain weight or volume, plain unit
\* count, trailing unit only; a later family never overrides an earlier one.
C34_FirstMatchWins ==
    LET order == <<"pack_units", "pack_with_net_weight", "multi_pack",
                   "weight_volume", "units", "unit_only">>
    IN  call.fn = "extract_info" /\ call.state = "returned" =>
            IF PhrasesIn # {}
            THEN \E i \in PhrasesIn :
                    call.result.quantity = QuantityStr(special_cases[i].value)
            ELSE \A i \in 1..Len(order) :
                    /\ FamilyMatch(order[i]).ok
                    /\ \A j \in 1..(i - 1) : ~FamilyMatch(order[j]).ok
                    => call.result.quantity =
                           QuantityStr(extracted_quantity(order[i],
                               FamilyMatch(order[i]).caps))

\* A name without a phrase in which the pack with net weight and the plain
\* weight both match and give different quantities: the pack has won.
C34_Witness ==
    /\ call.fn = "extract_info"
    /\ call.state = "returned"
    /\ PhrasesIn = {}
    /\ ~FamilyMatch("pack_units").ok
    /\ FamilyMatch("pack_with_net_weight").ok
    /\ FamilyMatch("weight_volume").ok
    /\ extracted_quantity("weight_volume", FamilyMatch("weight_volume").caps)
           # extracted_quantity("pack_with_net_weight",
                                FamilyMatch("pack_with_net_weight").caps)
    /\ call.result.quantity =
           QuantityStr(extracted_quantity("pack_with_net_weight",
                           FamilyMatch("pack_with_net_weight").caps))

(***************************************************************************)
(* The counters of the checkpoint.                                         *)
(***************************************************************************)

\* C35: in every checkpoint on disk, whichever component saved it (a
\* discovery pass, a completed sub-category, the spider's close, the
\* persister's close or its reset), scraped_categories of each source is
\* the number of entries of the source's categories_scraped list.
C35_ScrapedCountIsListLength ==
    \A s \in Sources :
        file.scraped_categories[s] = Cardinality(file.categories_scraped[s])

\* In the last run, every source having saved a non-empty list of scraped
\* categories, the persister's close of Auchan's crawl has saved the
\* checkpoint.
C35_Witness ==
    /\ \A s \in Sources : file.categories_scraped[s] # {}
    /\ runs = MaxRuns
    /\ cur = "auchan"
    /\ ev = "close_saved"

(***************************************************************************)
(* Completion while sources are still undiscovered.                        *)
(***************************************************************************)

\* Source s has not discovered or scraped anything: its total and its
\* scraped count are 0 and its list of scraped categories is empty.
Undiscovered(p, s) ==
    /\ p.total_categories[s] = 0
    /\ p.scraped_categories[s] = 0
    /\ p.categories_scraped[s] = {}

\* C36: a source whose total is 0 never blocks completion: the completion
\* test holds of the template, and it holds of the checkpoint whenever
\* Continente, the first source crawled, has scraped as many categories as
\* its total while PingoDoce and Auchan have neither discovered nor scraped
\* anything.
C36_ZeroTotalNeverBlocks ==
    /\ IsScrapingComplete(progress_file_default)
    /\ ( /\ file.scraped_categories["continente"] >= file.total_categories["continente"]
         /\ Undiscovered(file, "pingo_doce")
         /\ Undiscovered(file, "auchan") )
       => IsScrapingComplete(file)

\* Continente's crawl has scraped every category it discovered, the other
\* two sources have not been crawled yet, and the post-processing pass has
\* run at the close of Continente's crawl.
C36_Witness ==
    /\ cur = "continente"
    /\ pc = "close_persister"
    /\ ev = "post_run"
    /\ file.total_categories["continente"] > 0
    /\ file.categories_scraped["continente"] # {}
    /\ file.scraped_categories["continente"] = file.total_categories["continente"]
    /\ Undiscovered(file, "pingo_doce")
    /\ Undiscovered(file, "auchan")

(***************************************************************************)
(* Saves of the checkpoint by the spiders and by the persister.            *)
(***************************************************************************)

\* Record q keeps what record p holds of source s.
SameProgress(p, q, s) ==
    /\ q.total_categories[s] = p.total_categories[s]
    /\ q.scraped_categories[s] = p.scraped_categories[s]
    /\ q.categories_scraped[s] = p.categories_scraped[s]

\* C37: no checkpoint update is lost within a run.  While PingoDoce's
\* callbacks save the spider's own copy, that copy is the record on disk;
\* and every save other than the persister's reset to the template keeps
\* the database location and the run-start timestamp once they are set,
\* never lowers scraped_items, and keeps the progress of every source other
\* than the one being crawled (of every source, when the persister saves).
C37_NoSaveRevertsAField ==
    [][ /\ (pc = "crawl" /\ cur = "pingo_doce") => progress = file
        /\ (file' # file /\ ev' # "close_reset") =>
              /\ file.database_url # "" => file'.database_url = file.database_url
              /\ file.scraper_init_time # "" =>
                     file'.scraper_init_time = file.scraper_init_time
              /\ file'.scraped_items >= file.scraped_items
              /\ \A s \in Sources \ {cur} : SameProgress(file, file', s)
              /\ pc \in {"open", "close_persister"} =>
                     SameProgress(file, file', cur) ]_vars

\* The persister has closed PingoDoce's crawl and saved the checkpoint: the
\* record holds the database location, the items counted at the close of
\* Continente's crawl and at this one, and what both spiders have scraped.
C37_Witness ==
    /\ cur = "pingo_doce"
    /\ ev = "close_saved"
    /\ file.database_url = "db"
    /\ file.scraped_items >= 2
    /\ file.categories_scraped["continente"] # {}
    /\ file.categories_scraped["pingo_doce"] # {}

(***************************************************************************)
(* Repeated runs over an upstream taxonomy that does not change.  app.py   *)
(* is started again whenever it has ended, no run is killed, and every     *)
(* discovery sees the same categories: Continente's menu lists c1 with the *)
(* sub-category s1 and c2 with no sub-category link that is kept (its only *)
(* link is the ticket office's, which parse_category_links leaves out of   *)
(* the list), PingoDoce's and Auchan's list c1 and c2 with s1 each.        *)
(***************************************************************************)

Upstream(s) ==
    IF s = "continente"
    THEN Map({"c1", "c2"}, [c \in Cats |-> IF c = "c1" THEN {"s1"} ELSE {}])
    ELSE Map({"c1", "c2"}, [c \in Cats |-> {"s1"}])

\* app.py is started again; runs counts the starts up to MaxRuns.
Restart ==
    /\ pc = "idle"
    /\ runs' = IF runs < MaxRuns THEN runs + 1 ELSE runs
    /\ cur' = "continente"
    /\ pc' = "open"
    /\ ev' = "start"
    /\ UNCHANGED <<yielded, failures, file, catMapFile, pdMapFile, db, progress,
                   category_subcategory_map, pending, items_batch,
                   item_scraped_count>>
    /\ UNCHANGED call

RepeatedNext ==
    \/ Restart
    \/ OpenCrawl
    \/ ContinenteParseCategoryLinks /\ catMapFile' = Upstream("continente")
    \/ PingoDoceParse /\ pdMapFile' = Upstream("pingo_doce")
    \/ AuchanParse /\ file'.auchan_categories_dict = Upstream("auchan")
    \/ SaveToDatabaseProcessItem
    \/ ContinenteParseProducts
    \/ PingoDoceParseProducts
    \/ AuchanParseProducts
    \/ PostCloseSpider
    \/ SaveToDatabaseCloseSpider
    \/ SpiderClosed

\* The reactor runs every handler that is due, and app.py is started again
\* after each run.
RepeatedSpec == Init /\ [][RepeatedNext]_vars /\ WF_vars(RepeatedNext)

\* Category c is counted in the total of source s: it is a key of the
\* category map whose size the source's total is.
Counted(s, c) ==
    /\ file.total_categories[s] > 0
    /\ c \in CASE s = "continente" -> catMapFile.cats
               [] s = "pingo_doce" -> pdMapFile.cats
               [] OTHER            -> file.auchan_categories_dict.cats

\* C38: over repeated runs on an unchanging taxonomy, every category
\* counted in a source's total is eventually in the source's list of
\* scraped categories, a category with an empty list of sub-categories
\* included.
C38_CountedCategoryEventuallyScraped ==
    \A s \in Sources : \A c \in Cats :
        Counted(s, c) ~> (c \in file.categories_scraped[s])

(***************************************************************************)
(* The persister's buffer over a failed commit.                            *)
(***************************************************************************)

\* The buffers a handler of the persister can flush in this step:
\* close_spider flushes the buffer as it is, process_item the buffer with
\* the item it has just been given.
FlushedBuffers ==
    IF pc = "close_persister"
    THEN {items_batch}
    ELSE { items_batch \cup {Rec(cur, req.cat, req.sub, req.page)} : req \in yielded' }

\* C39: after a flush whose commit fails the buffer holds exactly the
\* records it held before the flush and the database is as it was; and
\* while the persister lives (its crawl is on and the process is not
\* killed) its buffer goes from non-empty to empty only in a handler whose
\* commit succeeds.
C39_FailedCommitKeepsBuffer ==
    [][ /\ ev' \in {"commit_failed", "close_failed"} =>
              /\ items_batch' \in FlushedBuffers
              /\ items_batch' # {}
              /\ db' = db
        /\ ( /\ pc \in {"crawl", "close_persister"}
             /\ pc' # "idle"
             /\ items_batch # {}
             /\ items_batch' = {} ) =>
              ev' \in {"commit_ok", "close_saved", "close_reset"} ]_vars

\* In the first crawl a commit has failed with BATCH_SIZE records in the
\* buffer, and the flush at the next item has committed them with it.
C39_Witness ==
    /\ runs = 1
    /\ cur = "continente"
    /\ failures = 1
    /\ ev = "commit_ok"
    /\ items_batch = {}
    /\ BagCardinality(db) = BATCH_SIZE + 1

====
